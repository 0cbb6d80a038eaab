------------------------ MODULE PipelineBoundsProofs ------------------------
(***************************************************************************)
(* How often Pipeline publishes, repeats and loses a match, and how often  *)
(* the dispatcher ends, proved for any number of bots, faults and closed   *)
(* channels.                                                               *)
(***************************************************************************)
EXTENDS PipelineProofs, FiniteSetTheorems

USE DEF Building, Publishing, Playing, PodStates
-----------------------------------------------------------------------------
(* The ends of the dispatcher have a common shape. *)

\* The messages of the two handlers are redelivered or not, and at most the
\* pod that was being built dies.  Either something was counted, or a build
\* found its pod created and is gone, or the handler had lost its channel.
Stop(pbToo, odToo) ==
  /\ Redeliver(pbToo, odToo)
  /\ DispatcherStops
  /\ \/ pods' = pods
     \/ pb.step = "wait" /\ pods' = [pods EXCEPT ![pb.bot] = "dead"]
  /\ \/ faults' + podless' = faults + podless + 1 /\ faults' >= faults
     \/ /\ ~pbToo /\ pb.step # "idle" /\ pods' = pods
        /\ ~pb.held \/ (pb.step = "create" /\ pods[pb.bot] # "none")
        /\ UNCHANGED <<faults, podless>>

StopStep == \E p, o \in BOOLEAN : Stop(p, o)

\* The steps that leave the dispatcher running.
QuietBuilder ==
  \/ \E b \in Bots : BuilderReceives(b)
  \/ CreatePod \/ PodStarts \/ SetPodReady \/ PublishPodReady \/ BuilderAcks

QuietOndeck ==
  \/ \E p \in Pairs : OndeckReceives(p)
  \/ PlayMatch \/ RecordMatch \/ OndeckAcks

QuietFault ==
  \/ \E b \in Bots : EnqueueFails(b) \/ PodLost(b)
  \/ KillScheduler \/ SchedulerErrs

QuietProbe ==
  BuilderChannelCloses \/ SchedulerChannelCloses \/ StaleSchedulerRaises

Outside ==
  \/ \E b \in Bots : Upload(b)
  \/ \E c \in Consumers : Start(c)
  \/ WebStep

\* Every step ends the dispatcher or is one of the others.
LEMMA StepCases ==
  ASSUME TypeOK, [Next]_vars
  PROVE  \/ StopStep \/ QuietBuilder \/ SchedulerStep \/ QuietOndeck \/ QuietFault
         \/ QuietProbe \/ Outside \/ UNCHANGED vars
<1>0. faults \in Nat /\ podless \in Nat
  BY FaultsAssumption DEF TypeOK
<1>1. CASE CreatePodConflict
  BY <1>1 DEF CreatePodConflict, PodBuilderRaises, BuilderAt, StopStep, Stop
<1>2. CASE PodDoesNotStart
  <2>1. PICK o \in BOOLEAN : Redeliver(FALSE, o)
    BY <1>2 DEF PodDoesNotStart, PodBuilderRaises
  <2>2. faults' + podless' = faults + podless + 1 /\ faults' >= faults
    BY <1>0, <1>2 DEF PodDoesNotStart, PodBuilderRaises, Fault
  <2>3. Stop(FALSE, o)
    BY <1>2, <2>1, <2>2, Zenon DEF PodDoesNotStart, PodBuilderRaises, BuilderAt, Stop
  <2> QED
    BY <2>3 DEF StopStep
<1>3. CASE BuilderErrs
  <2>1. PICK o \in BOOLEAN : Redeliver(FALSE, o)
    BY <1>3 DEF BuilderErrs, PodBuilderRaises
  <2>2. faults' + podless' = faults + podless + 1 /\ faults' >= faults
    BY <1>0, <1>3 DEF BuilderErrs, PodBuilderRaises, Fault
  <2>3. Stop(FALSE, o)
    BY <1>3, <2>1, <2>2, Zenon DEF BuilderErrs, PodBuilderRaises, Stop
  <2> QED
    BY <2>3 DEF StopStep
<1>4. CASE KillDispatcher
  <2>1. faults' + podless' = faults + podless + 1 /\ faults' >= faults
    BY <1>0, <1>4 DEF KillDispatcher, Fault
  <2>2. Stop(TRUE, TRUE)
    BY <1>4, <2>1, Zenon DEF KillDispatcher, Stop
  <2> QED
    BY <2>2 DEF StopStep
<1>5. CASE PlayWithoutPod
  <2>1. PICK p \in BOOLEAN : Redeliver(p, FALSE)
    BY <1>5 DEF PlayWithoutPod, OndeckHandlerRaises
  <2>2. faults' + podless' = faults + podless + 1 /\ faults' >= faults
    BY <1>0, <1>5 DEF PlayWithoutPod, OndeckHandlerRaises
  <2>3. Stop(p, FALSE)
    BY <1>5, <2>1, <2>2, Zenon DEF PlayWithoutPod, OndeckHandlerRaises, Stop
  <2> QED
    BY <2>3 DEF StopStep
<1>6. CASE OndeckErrs
  <2>1. PICK p \in BOOLEAN : Redeliver(p, FALSE)
    BY <1>6 DEF OndeckErrs, OndeckHandlerRaises
  <2>2. faults' + podless' = faults + podless + 1 /\ faults' >= faults
    BY <1>0, <1>6 DEF OndeckErrs, OndeckHandlerRaises, Fault
  <2>3. Stop(p, FALSE)
    BY <1>6, <2>1, <2>2, Zenon DEF OndeckErrs, OndeckHandlerRaises, Stop
  <2> QED
    BY <2>3 DEF StopStep
<1>7. CASE BuilderStep
  BY <1>1, <1>7 DEF BuilderStep, QuietBuilder
<1>8. CASE OndeckStep
  BY <1>5, <1>8 DEF OndeckStep, QuietOndeck
<1>9. CASE FaultStep
  BY <1>2, <1>3, <1>4, <1>6, <1>9 DEF FaultStep, QuietFault
<1>10. CASE StaleBuilderRaises
  BY <1>10 DEF StaleBuilderRaises, PodBuilderRaises, BuilderAt, StopStep, Stop
<1> QED
  BY <1>7, <1>8, <1>9, <1>10 DEF Next, Outside, ProbeStep, QuietProbe
-----------------------------------------------------------------------------
(* How often a pairing is put on deck. *)

\* The announcements of a bot that are still to be handled: one that may yet
\* be published, because its pod is not created or is being waited for, and
\* those in the queue.
Coming(b) ==
  IF pods[b] = "none" \/ (pb.bot = b /\ pb.step \in {"wait", "set_ready", "publish"})
    THEN 1 ELSE 0

Left(b) == Coming(b) + schedule[b]

\* Whether the scheduler is about to put x on deck against o, for x's or for
\* o's announcement.
AsX(x, o) ==
  IF sc.bot = x /\ (sc.step = "read" \/ o \in sc.others) THEN 1 ELSE 0

AsO(x, o) ==
  IF sc.bot = o /\ (sc.step = "read" \/ x \in sc.others \/ sc.mirror = x)
    THEN 1 ELSE 0

\* What puts an announcement back after it has been taken.
Repeats == faults + closings["match_scheduler"]

\* What has been published of a pairing, and what may yet be.
CountInv ==
  \A x, o \in Bots :
    published[<<x, o>>] + Left(x) + AsX(x, o)
        + (IF x = o THEN 0 ELSE Left(o) + AsO(x, o))
      <= (IF x = o THEN 1 ELSE 2) + Repeats

MirrorInv ==
  /\ sc.step = "read" => sc.mirror = NoBot
  /\ sc.mirror # NoBot => sc.mirror \notin sc.others /\ sc.mirror # sc.bot

\* The summands are numbers.
LEMMA CountTypes ==
  ASSUME TypeOK
  PROVE  /\ Repeats \in Nat /\ faults \in Nat /\ closings["match_scheduler"] \in Nat
         /\ \A b \in Bots : Left(b) \in Nat
         /\ \A x, o \in Bots : /\ AsX(x, o) \in {0, 1} /\ AsO(x, o) \in {0, 1}
                               /\ published[<<x, o>>] \in Nat
<1>1. \A b \in Bots : Left(b) \in Nat
  BY DEF TypeOK, Left, Coming
<1>2. \A x, o \in Bots : <<x, o>> \in Pairs
  BY DEF Pairs
<1>3. faults \in Nat /\ closings["match_scheduler"] \in Nat
  BY FaultsAssumption, ClosingsAssumption DEF TypeOK, Publishers
<1> QED
  BY <1>1, <1>2, <1>3 DEF TypeOK, AsX, AsO, Repeats

\* A step that publishes nothing and adds nothing to be published.
LEMMA CountKept ==
  ASSUME TypeOK, TypeOK', CountInv, published' = published, Repeats' >= Repeats,
         \A b \in Bots : Left(b)' <= Left(b),
         \A x, o \in Bots : AsX(x, o)' <= AsX(x, o) /\ AsO(x, o)' <= AsO(x, o)
  PROVE  CountInv'
<1> SUFFICES ASSUME NEW x \in Bots, NEW o \in Bots
             PROVE  (published[<<x, o>>] + Left(x) + AsX(x, o)
                       + (IF x = o THEN 0 ELSE Left(o) + AsO(x, o)))'
                      <= (IF x = o THEN 1 ELSE 2) + Repeats'
  BY DEF CountInv
<1>1. /\ Repeats \in Nat /\ Left(x) \in Nat /\ Left(o) \in Nat
      /\ AsX(x, o) \in Nat /\ AsO(x, o) \in Nat /\ published[<<x, o>>] \in Nat
  BY CountTypes
<1>2. /\ Repeats' \in Nat /\ Left(x)' \in Nat /\ Left(o)' \in Nat
      /\ AsX(x, o)' \in Nat /\ AsO(x, o)' \in Nat
  BY FaultsAssumption, ClosingsAssumption
  DEF TypeOK, Left, Coming, AsX, AsO, Repeats, Publishers
<1>3. /\ Left(x)' <= Left(x) /\ Left(o)' <= Left(o)
      /\ AsX(x, o)' <= AsX(x, o) /\ AsO(x, o)' <= AsO(x, o)
  OBVIOUS
<1>4. published[<<x, o>>] + Left(x) + AsX(x, o)
        + (IF x = o THEN 0 ELSE Left(o) + AsO(x, o))
          <= (IF x = o THEN 1 ELSE 2) + Repeats
  BY DEF CountInv
<1> QED
  BY <1>1, <1>2, <1>3, <1>4

\* The scheduler is left at its work or ends: nothing more is about to be published.
LEMMA PendingKept ==
  ASSUME TypeOK, sc' = ScIdle \/ UNCHANGED <<sc.step, sc.bot, sc.others, sc.mirror>>
  PROVE  \A x, o \in Bots : AsX(x, o)' <= AsX(x, o) /\ AsO(x, o)' <= AsO(x, o)
BY BotsAssumption DEF AsX, AsO, ScIdle

\* Outside the scheduler an announcement is published once, when its pod has
\* answered, and a pod is never created again.
LEMMA LeftKept ==
  ASSUME IInv, TypeOK',
         \/ StopStep \/ QuietBuilder \/ QuietOndeck
         \/ BuilderChannelCloses \/ StaleSchedulerRaises \/ Outside \/ UNCHANGED vars
  PROVE  (\A b \in Bots : Left(b)' <= Left(b)) /\ Repeats' >= Repeats
<1> USE DEF Left, Repeats, broker, history
<1>0. /\ faults \in Nat /\ closings["match_scheduler"] \in Nat
      /\ schedule \in [Bots -> Nat]
      /\ pods \in [Bots -> PodStates]
  BY FaultsAssumption, ClosingsAssumption DEF IInv, TypeOK, Publishers
\* A step that leaves the announcements in the queue.
<1>1. ASSUME schedule' = schedule,
             \A b \in Bots : Coming(b)' = 1 => Coming(b) = 1,
             Repeats' >= Repeats
      PROVE  (\A b \in Bots : Left(b)' <= Left(b)) /\ Repeats' >= Repeats
  <2>1. \A b \in Bots : Coming(b) \in {0, 1} /\ Coming(b)' \in {0, 1}
    BY DEF Coming
  <2> QED
    BY <1>0, <1>1, <2>1
<1>2. CASE StopStep
  <2>1. PICK p, o \in BOOLEAN : Stop(p, o)
    BY <1>2 DEF StopStep
  <2>2. schedule' = schedule /\ pb' = PbIdle /\ Repeats' >= Repeats
    <3>1. faults' \in Nat /\ faults' >= faults
      BY <1>0, <2>1, FaultsAssumption DEF Stop, TypeOK
    <3> QED
      BY <1>0, <2>1, <3>1 DEF Stop, DispatcherStops
  <2>3. \A b \in Bots : pods'[b] = "none" => pods[b] = "none"
    BY <1>0, <2>1 DEF Stop
  <2> QED
    BY <1>1, <2>2, <2>3 DEF Coming, PbIdle
<1>3. CASE QuietBuilder
  <2>0. ~Idle(pb) => pb \in Building
    BY HandlerTypes DEF IInv
  <2>1. ASSUME NEW b \in Bots, BuilderReceives(b)
        PROVE (\A c \in Bots : Left(c)' <= Left(c)) /\ Repeats' >= Repeats
    BY <1>0, <1>1, <2>1 DEF BuilderReceives, Coming, PbIdle
  <2>2. CASE CreatePod
    BY <1>0, <1>1, <2>0, <2>2 DEF CreatePod, BuilderAt, Idle, Coming
  <2>3. CASE PodStarts
    BY <1>0, <1>1, <2>0, <2>3 DEF PodStarts, BuilderAt, Idle, Coming
  <2>4. CASE SetPodReady
    BY <1>0, <1>1, <2>0, <2>4 DEF SetPodReady, BuilderAt, Idle, Coming
  <2>5. CASE BuilderAcks
    BY <1>0, <1>1, <2>5 DEF BuilderAcks, Coming, PbIdle
  <2>6. CASE PublishPodReady
    <3>1. /\ pb.bot \in Bots /\ pb.step = "publish" /\ pods[pb.bot] # "none"
          /\ pb'.step = "ack" /\ pods' = pods /\ Repeats' = Repeats
          /\ schedule' = Publish("matches.schedule", schedule, pb.bot)
      BY <2>0, <2>6
      DEF PublishPodReady, BuilderAt, Idle, IInv, ReadyInv, Answered
    <3>2. schedule'[pb.bot] <= schedule[pb.bot] + 1
      BY <1>0, <3>1 DEF Publish
    <3>3. \A c \in Bots \ {pb.bot} : schedule'[c] = schedule[c]
      BY <1>0, <3>1 DEF Publish
    <3>4. Coming(pb.bot) = 1
      BY <3>1 DEF Coming
    <3>5. Coming(pb.bot)' = 0 /\ pb' = [pb EXCEPT !.step = "ack"]
      BY <2>0, <2>6, <3>1 DEF Coming, PublishPodReady, Idle
    <3>6. \A c \in Bots \ {pb.bot} : Coming(c)' <= Coming(c)
      BY <2>0, <3>1, <3>5 DEF Coming, Idle
    <3>7. \A c \in Bots : schedule'[c] \in Nat /\ Coming(c) \in Nat /\ Coming(c)' \in Nat
      BY <1>0, <3>1 DEF Publish, Coming
    <3>8. PICK b \in Bots : b = pb.bot
      BY <3>1
    <3>9. Coming(b) = 1 /\ pb'.bot = b
      BY <2>0, <3>1, <3>4, <3>5, <3>8 DEF Idle
    <3>10. Coming(b)' = 0
      BY <3>1, <3>8, <3>9 DEF Coming
    <3> QED
      BY <1>0, <3>1, <3>2, <3>3, <3>6, <3>7, <3>8, <3>9, <3>10
  <2> QED
    BY <1>3, <2>1, <2>2, <2>3, <2>4, <2>5, <2>6 DEF QuietBuilder
<1>4. CASE BuilderChannelCloses
  <2>1. /\ schedule' = schedule /\ pods' = pods /\ faults' = faults
        /\ pb'.step = pb.step /\ pb'.bot = pb.bot
        /\ closings'["match_scheduler"] = closings["match_scheduler"]
    BY <1>4, HandlerTypes DEF BuilderChannelCloses, Closing, IInv, TypeOK, Publishers
  <2> QED
    BY <1>0, <1>1, <2>1 DEF Coming
<1>5. CASE StaleSchedulerRaises
  BY <1>0, <1>1, <1>5 DEF StaleSchedulerRaises, SchedulerStops, Coming
<1>6. CASE QuietOndeck \/ Outside \/ UNCHANGED vars
  BY <1>0, <1>1, <1>6
  DEF QuietOndeck, OndeckReceives, PlayMatch, RecordMatch, OndeckAcks,
    Outside, Upload, Start, WebStep, EnqueueBuildPod, vars, Coming
<1> QED
  BY <1>2, <1>3, <1>4, <1>5, <1>6

\* The scheduler mirrors a pairing it has just published, of two bots.
LEMMA MirrorStep ==
  ASSUME TypeOK, MirrorInv, [Next]_vars
  PROVE  MirrorInv'
<1> USE DEF MirrorInv
<1>0. ~Idle(sc) => sc \in Publishing
  BY HandlerTypes DEF Publishing
<1>1. CASE ~SchedulerStep
  BY <1>1, AsideStep DEF Aside, ScIdle
<1>2. ASSUME NEW b \in Bots, SchedulerReceives(b) PROVE MirrorInv'
  BY <1>2 DEF SchedulerReceives
<1>3. CASE ReadReadyBots
  BY <1>0, <1>3 DEF ReadReadyBots, SchedulerAt, Idle, Publishing
<1>4. ASSUME NEW b \in Bots, EnqueueAsX(b) PROVE MirrorInv'
  BY <1>0, <1>4 DEF EnqueueAsX, SchedulerAt, Idle, Publishing
<1>5. CASE EnqueueAsO
  BY <1>0, <1>5 DEF EnqueueAsO, SchedulerAt, Idle, Publishing
<1>6. CASE SchedulerAcks
  BY <1>6 DEF SchedulerAcks, ScIdle
<1> QED
  BY <1>1, <1>2, <1>3, <1>4, <1>5, <1>6 DEF SchedulerStep

\* One pairing is published, which was about to be; no other becomes due.
LEMMA CountPublished ==
  ASSUME TypeOK, TypeOK', CountInv, NEW x \in Bots, NEW o \in Bots, PublishMatch(x, o),
         \A b, c \in Bots : AsX(b, c)' <= AsX(b, c) /\ AsO(b, c)' <= AsO(b, c),
         \/ AsX(x, o) = 1 /\ AsX(x, o)' = 0
         \/ x # o /\ AsO(x, o) = 1 /\ AsO(x, o)' = 0
  PROVE  CountInv'
<1> SUFFICES ASSUME NEW b \in Bots, NEW c \in Bots
             PROVE  (published[<<b, c>>] + Left(b) + AsX(b, c)
                       + (IF b = c THEN 0 ELSE Left(c) + AsO(b, c)))'
                      <= (IF b = c THEN 1 ELSE 2) + Repeats'
  BY DEF CountInv
<1>1. Left(b)' = Left(b) /\ Left(c)' = Left(c) /\ Repeats' = Repeats
  BY DEF PublishMatch, Left, Coming, Repeats
<1>2. /\ Repeats \in Nat /\ Left(b) \in Nat /\ Left(c) \in Nat
      /\ AsX(b, c) \in Nat /\ AsO(b, c) \in Nat /\ published[<<b, c>>] \in Nat
  BY CountTypes
<1>3. AsX(b, c)' \in {0, 1} /\ AsO(b, c)' \in {0, 1}
  BY DEF AsX, AsO
<1>4. published[<<b, c>>] + Left(b) + AsX(b, c)
        + (IF b = c THEN 0 ELSE Left(c) + AsO(b, c))
          <= (IF b = c THEN 1 ELSE 2) + Repeats
  BY DEF CountInv
<1>5. AsX(b, c)' <= AsX(b, c) /\ AsO(b, c)' <= AsO(b, c)
  OBVIOUS
<1>6. CASE b = x /\ c = o
  <2>1. published'[<<b, c>>] = published[<<b, c>>] + 1
    BY <1>6 DEF PublishMatch, TypeOK, Pairs
  <2>2. \/ AsX(b, c) = 1 /\ AsX(b, c)' = 0
        \/ b # c /\ AsO(b, c) = 1 /\ AsO(b, c)' = 0
    BY <1>6
  <2> QED
    BY <1>1, <1>2, <1>3, <1>4, <1>5, <2>1, <2>2
<1>7. CASE ~(b = x /\ c = o)
  <2>1. published'[<<b, c>>] = published[<<b, c>>]
    BY <1>7 DEF PublishMatch, TypeOK, Pairs
  <2> QED
    BY <1>1, <1>2, <1>3, <1>4, <1>5, <2>1
<1> QED
  BY <1>6, <1>7

\* A bot's announcement is taken from the queue, or put back for a reason that
\* is counted: what is due for it changes by as much.
LEMMA CountMoved ==
  ASSUME TypeOK, TypeOK', CountInv, published' = published, NEW b \in Bots,
         \A c \in Bots \ {b} : Left(c)' = Left(c),
         \A x, o \in Bots : x # b => AsX(x, o)' = 0 /\ AsX(x, o) = 0,
         \A x, o \in Bots : o # b => AsO(x, o)' = 0 /\ AsO(x, o) = 0,
         \/ Left(b)' = Left(b) - 1 /\ Repeats' = Repeats
         \/ /\ Left(b)' = Left(b) + 1 /\ Repeats' = Repeats + 1
            /\ \A x, o \in Bots : AsX(x, o)' <= AsX(x, o) /\ AsO(x, o)' <= AsO(x, o)
  PROVE  CountInv'
<1> SUFFICES ASSUME NEW x \in Bots, NEW o \in Bots
             PROVE  (published[<<x, o>>] + Left(x) + AsX(x, o)
                       + (IF x = o THEN 0 ELSE Left(o) + AsO(x, o)))'
                      <= (IF x = o THEN 1 ELSE 2) + Repeats'
  BY DEF CountInv
<1>1. /\ Repeats \in Nat /\ Left(x) \in Nat /\ Left(o) \in Nat /\ Left(b) \in Nat
      /\ AsX(x, o) \in Nat /\ AsO(x, o) \in Nat /\ published[<<x, o>>] \in Nat
  BY CountTypes
<1>2. AsX(x, o)' \in {0, 1} /\ AsO(x, o)' \in {0, 1}
  BY DEF AsX, AsO
<1>3. published[<<x, o>>] + Left(x) + AsX(x, o)
        + (IF x = o THEN 0 ELSE Left(o) + AsO(x, o))
          <= (IF x = o THEN 1 ELSE 2) + Repeats
  BY DEF CountInv
<1>4. /\ x # b => AsX(x, o)' = 0 /\ AsX(x, o) = 0 /\ Left(x)' = Left(x)
      /\ o # b => AsO(x, o)' = 0 /\ AsO(x, o) = 0 /\ Left(o)' = Left(o)
  OBVIOUS
<1>5. CASE x # b /\ o # b
  BY <1>1, <1>3, <1>4, <1>5
<1>6. CASE x = b /\ o = b
  BY <1>1, <1>2, <1>3, <1>6
<1>7. CASE x = b /\ o # b
  BY <1>1, <1>2, <1>3, <1>4, <1>7
<1>8. CASE x # b /\ o = b
  BY <1>1, <1>2, <1>3, <1>4, <1>8
<1> QED
  BY <1>5, <1>6, <1>7, <1>8

\* What has been published of a pairing and what is due stays within bounds.
LEMMA CountStep ==
  ASSUME IInv, TypeOK', MirrorInv, CountInv, [Next]_vars
  PROVE  CountInv'
<1> USE DEF broker, history
<1>0. TypeOK /\ (~Idle(sc) => sc \in Publishing)
  BY HandlerTypes DEF IInv, Publishing
<1>1. CASE \/ StopStep \/ QuietBuilder \/ QuietOndeck
           \/ BuilderChannelCloses \/ StaleSchedulerRaises \/ Outside \/ UNCHANGED vars
  <2>1. (sc' = sc \/ sc' = ScIdle) /\ published' = published
    BY <1>1
    DEF StopStep, Stop, DispatcherStops, QuietBuilder, BuilderReceives, CreatePod, PodStarts,
      SetPodReady, PublishPodReady, BuilderAcks, QuietOndeck, OndeckReceives, PlayMatch,
      RecordMatch, OndeckAcks, BuilderChannelCloses, StaleSchedulerRaises, SchedulerStops,
      Outside, Upload, Start, WebStep, EnqueueBuildPod, vars
  <2> QED
    BY <1>0, <1>1, <2>1, LeftKept, PendingKept, CountKept
<1>2. CASE QuietFault
  <2>0. /\ faults \in Nat /\ closings["match_scheduler"] \in Nat
        /\ schedule \in [Bots -> Nat] /\ pods \in [Bots -> PodStates]
    BY <1>0, FaultsAssumption, ClosingsAssumption DEF TypeOK, Publishers
  <2>1. CASE KillScheduler /\ sc.held
    <3>1. PICK b \in Bots : b = sc.bot
      BY <1>0, <2>1, HandlerTypes
    <3>2. /\ schedule' = [schedule EXCEPT ![b] = @ + 1] /\ sc' = ScIdle
          /\ published' = published /\ pods' = pods /\ pb' = pb /\ Repeats' = Repeats + 1
      BY <2>0, <2>1, <3>1 DEF KillScheduler, SchedulerStops, Fault, Repeats
    <3>3. \A c \in Bots : Coming(c)' = Coming(c) /\ Coming(c) \in Nat
      BY <3>2 DEF Coming
    <3>4. Left(b)' = Left(b) + 1 /\ \A c \in Bots \ {b} : Left(c)' = Left(c)
      BY <2>0, <3>2, <3>3 DEF Left
    <3>5. \A x, o \in Bots : /\ AsX(x, o)' = 0 /\ AsO(x, o)' = 0
                            /\ AsX(x, o)' <= AsX(x, o) /\ AsO(x, o)' <= AsO(x, o)
      BY <3>2, BotsAssumption DEF AsX, AsO, ScIdle
    <3>6. /\ \A x, o \in Bots : x # b => AsX(x, o) = 0
          /\ \A x, o \in Bots : o # b => AsO(x, o) = 0
      BY <3>1 DEF AsX, AsO
    <3> QED
      BY <1>0, <3>2, <3>4, <3>5, <3>6, CountMoved
  <2>2. CASE ~(KillScheduler /\ sc.held)
    <3>1. /\ schedule' = schedule /\ pb' = pb /\ published' = published
          /\ Repeats' = Repeats + 1
          /\ sc' = sc \/ sc' = ScIdle
      BY <1>2, <2>0, <2>2
      DEF QuietFault, EnqueueFails, PodLost, KillScheduler, SchedulerErrs, SchedulerStops, Fault,
        Repeats
    <3>2. \A c \in Bots : pods'[c] = "none" => pods[c] = "none"
      BY <1>2, <2>0 DEF QuietFault, EnqueueFails, PodLost, KillScheduler, SchedulerErrs,
        SchedulerStops
    <3>3. \A c \in Bots : Coming(c)' <= Coming(c) /\ Coming(c) \in Nat /\ Coming(c)' \in Nat
      BY <3>1, <3>2 DEF Coming
    <3>4. \A c \in Bots : Left(c)' <= Left(c)
      BY <2>0, <3>1, <3>3 DEF Left
    <3>5. Repeats' >= Repeats
      BY <1>0, <3>1, CountTypes
    <3> QED
      BY <1>0, <3>1, <3>4, <3>5, PendingKept, CountKept
  <2> QED
    BY <2>1, <2>2
<1>3. ASSUME NEW b \in Bots, SchedulerReceives(b) PROVE CountInv'
  <2>1. /\ schedule \in [Bots -> Nat] /\ schedule[b] > 0 /\ schedule' = Take(schedule, b)
        /\ published' = published /\ pods' = pods /\ pb' = pb /\ Repeats' = Repeats
        /\ sc'.bot = b /\ sc = ScIdle
    BY <1>0, <1>3 DEF SchedulerReceives, SchedulerAt, TypeOK, Repeats
  <2>2. \A c \in Bots : Coming(c)' = Coming(c) /\ Coming(c) \in Nat
    BY <2>1 DEF Coming
  <2>3. Left(b)' = Left(b) - 1 /\ \A c \in Bots \ {b} : Left(c)' = Left(c)
    BY <2>1, <2>2 DEF Left, Take
  <2>4. /\ \A x, o \in Bots : x # b => AsX(x, o)' = 0 /\ AsX(x, o) = 0
        /\ \A x, o \in Bots : o # b => AsO(x, o)' = 0 /\ AsO(x, o) = 0
    BY <2>1, BotsAssumption DEF AsX, AsO, ScIdle
  <2> QED
    BY <1>0, <2>1, <2>3, <2>4, CountMoved
<1>4. CASE ReadReadyBots
  <2>1. /\ sc \in Publishing /\ sc.step = "read"
        /\ sc' = [sc EXCEPT !.step = "publish", !.others = ready]
        /\ published' = published /\ Repeats' = Repeats /\ sc.mirror = NoBot
    BY <1>0, <1>4 DEF ReadReadyBots, SchedulerAt, Idle, MirrorInv, Repeats
  <2>2. \A x, o \in Bots : AsX(x, o)' <= AsX(x, o) /\ AsO(x, o)' <= AsO(x, o)
    BY <2>1 DEF AsX, AsO, Publishing
  <2>3. \A b \in Bots : Left(b)' = Left(b)
    BY <1>4 DEF ReadReadyBots, Left, Coming
  <2>4. \A b \in Bots : Left(b) \in Nat /\ Repeats \in Nat
    BY <1>0, CountTypes
  <2>5. (\A b \in Bots : Left(b)' <= Left(b)) /\ Repeats' >= Repeats
    BY <2>1, <2>3, <2>4, <1>0
  <2> QED
    BY <1>0, <2>1, <2>2, <2>5, CountKept
<1>5. ASSUME NEW o \in Bots, EnqueueAsX(o) PROVE CountInv'
  <2>1. PICK x \in Bots : x = sc.bot
    BY <1>0, <1>5 DEF EnqueueAsX, SchedulerAt, Idle, Publishing
  <2>2. /\ sc \in Publishing /\ sc.step = "publish" /\ sc.mirror = NoBot /\ o \in sc.others
        /\ sc'.step = "publish" /\ sc'.bot = x /\ sc'.others = sc.others \ {o}
        /\ sc'.mirror = IF o # x THEN o ELSE NoBot
        /\ PublishMatch(x, o)
    BY <1>0, <1>5, <2>1 DEF EnqueueAsX, SchedulerAt, Idle, Publishing
  <2>3. AsX(x, o) = 1 /\ AsX(x, o)' = 0
    BY <2>1, <2>2 DEF AsX
  <2>4. \A b, c \in Bots : AsX(b, c)' <= AsX(b, c) /\ AsO(b, c)' <= AsO(b, c)
    BY <2>1, <2>2, BotsAssumption DEF AsX, AsO
  <2> QED
    BY <1>0, <2>2, <2>3, <2>4, CountPublished
<1>6. CASE EnqueueAsO
  <2>1. PICK x, o \in Bots : x = sc.mirror /\ o = sc.bot
    BY <1>0, <1>6 DEF EnqueueAsO, SchedulerAt, Idle, Publishing
  <2>2. /\ sc \in Publishing /\ sc.step = "publish" /\ x \notin sc.others /\ x # o
        /\ sc'.step = "publish" /\ sc'.bot = o /\ sc'.others = sc.others
        /\ sc'.mirror = NoBot
        /\ PublishMatch(x, o)
    BY <1>0, <1>6, <2>1 DEF EnqueueAsO, SchedulerAt, Idle, Publishing, MirrorInv
  <2>3. AsO(x, o) = 1 /\ AsO(x, o)' = 0
    BY <2>1, <2>2, BotsAssumption DEF AsO
  <2>4. \A b, c \in Bots : AsX(b, c)' <= AsX(b, c) /\ AsO(b, c)' <= AsO(b, c)
    BY <2>1, <2>2, BotsAssumption DEF AsX, AsO
  <2> QED
    BY <1>0, <2>2, <2>3, <2>4, CountPublished
<1>7. CASE SchedulerAcks
  <2>1. sc' = ScIdle /\ published' = published /\ Repeats' = Repeats /\ Repeats \in Nat
    BY <1>0, <1>7, CountTypes DEF SchedulerAcks, Repeats
  <2>2. \A b \in Bots : Left(b)' = Left(b) /\ Left(b) \in Nat
    BY <1>0, <1>7, CountTypes DEF SchedulerAcks, Left, Coming
  <2> QED
    BY <1>0, <2>1, <2>2, PendingKept, CountKept
<1>8. CASE SchedulerChannelCloses
  <2>0. closings["match_scheduler"] \in Nat /\ faults \in Nat
    BY <1>0, FaultsAssumption, ClosingsAssumption DEF TypeOK, Publishers
  <2>1. PICK b \in Bots : b = sc.bot
    BY <1>0, <1>8, HandlerTypes DEF SchedulerChannelCloses
  <2>2. /\ schedule \in [Bots -> Nat] /\ schedule' = [schedule EXCEPT ![b] = @ + 1]
        /\ published' = published /\ pods' = pods /\ pb' = pb /\ Repeats' = Repeats + 1
        /\ UNCHANGED <<sc.step, sc.bot, sc.others, sc.mirror>>
    BY <1>0, <1>8, <2>0, <2>1, HandlerTypes
    DEF SchedulerChannelCloses, Closing, TypeOK, Publishers, Repeats
  <2>3. \A c \in Bots : Coming(c)' = Coming(c) /\ Coming(c) \in Nat
    BY <2>2 DEF Coming
  <2>4. Left(b)' = Left(b) + 1 /\ \A c \in Bots \ {b} : Left(c)' = Left(c)
    BY <2>2, <2>3 DEF Left
  <2>5. /\ \A x, o \in Bots : x # b => AsX(x, o)' = 0 /\ AsX(x, o) = 0
        /\ \A x, o \in Bots : o # b => AsO(x, o)' = 0 /\ AsO(x, o) = 0
    BY <2>1, <2>2 DEF AsX, AsO
  <2>6. \A x, o \in Bots : AsX(x, o)' <= AsX(x, o) /\ AsO(x, o)' <= AsO(x, o)
    BY <1>0, <2>2, PendingKept
  <2> QED
    BY <1>0, <2>2, <2>4, <2>5, <2>6, CountMoved
<1> QED
  BY <1>0, <1>1, <1>2, <1>3, <1>4, <1>5, <1>6, <1>7, <1>8, StepCases
  DEF SchedulerStep, QuietProbe
-----------------------------------------------------------------------------
(* What becomes of a match that is on deck. *)

\* ondeck_handler meets ready bots only, so it acks no match unplayed, and
\* what it acks is recorded.
OndeckInv ==
  /\ \A p \in Pairs : ondeck[p] > 0 => {p[1], p[2]} \subseteq ready
  /\ ~Idle(od) => {od.pair[1], od.pair[2]} \subseteq ready
  /\ od.step = "ack" => recorded[od.pair] > 0

\* The steps that leave the matches on deck alone.
LEMMA OndeckAside ==
  ASSUME QuietBuilder \/ QuietFault \/ QuietProbe \/ Outside \/ UNCHANGED vars
         \/ (\E b \in Bots : SchedulerReceives(b)) \/ ReadReadyBots \/ SchedulerAcks
  PROVE  /\ UNCHANGED <<ondeck, od, recorded, published, stops>>
         /\ ready \subseteq ready' /\ declared \subseteq declared'
BY DEF QuietBuilder, QuietFault, QuietProbe, Outside, BuilderReceives, CreatePod, PodStarts,
  SetPodReady, PublishPodReady, BuilderAcks, EnqueueFails, PodLost, KillScheduler, SchedulerErrs,
  SchedulerStops, BuilderChannelCloses, SchedulerChannelCloses, StaleSchedulerRaises, Upload, Start, WebStep, EnqueueBuildPod, SchedulerReceives, ReadReadyBots,
  SchedulerAcks, vars, broker, history

\* The scheduler's other steps publish a pairing of two ready bots.
LEMMA SchedulerPublishes ==
  ASSUME IInv, (\E b \in Bots : EnqueueAsX(b)) \/ EnqueueAsO
  PROVE  \E x, o \in ready : x \in Bots /\ o \in Bots /\ PublishMatch(x, o)
<1>0. ready \subseteq Bots /\ (~Idle(sc) => sc \in Publishing)
  BY HandlerTypes DEF IInv, Publishing, TypeOK
<1>1. ASSUME NEW b \in Bots, EnqueueAsX(b)
      PROVE  sc.bot \in ready /\ b \in ready /\ PublishMatch(sc.bot, b)
  BY <1>0, <1>1 DEF EnqueueAsX, SchedulerAt, Idle, IInv, AnnouncedInv
<1>2. CASE EnqueueAsO
  <2>1. sc.bot \in ready /\ sc.mirror \in ready /\ PublishMatch(sc.mirror, sc.bot)
    BY <1>0, <1>2 DEF EnqueueAsO, SchedulerAt, Idle, IInv, AnnouncedInv
  <2> QED
    BY <1>0, <2>1
<1> QED
  BY <1>0, <1>1, <1>2

\* Whatever is on deck is a pairing of ready bots.
LEMMA OndeckInvStep ==
  ASSUME IInv, OndeckInv, [Next]_vars
  PROVE  OndeckInv'
<1> USE DEF OndeckInv
<1>0. /\ TypeOK /\ ondeck \in [Pairs -> Nat] /\ recorded \in [Pairs -> Nat]
      /\ ~Idle(od) => od \in Playing
  BY HandlerTypes DEF IInv, TypeOK
<1>1. ASSUME UNCHANGED <<ondeck, od, recorded>>, ready \subseteq ready' PROVE OndeckInv'
  BY <1>1
<1>2. CASE StopStep
  <2>1. PICK p, o \in BOOLEAN : Stop(p, o)
    BY <1>2 DEF StopStep
  <2>2. ready' = ready /\ od' = OdIdle
    BY <2>1 DEF Stop, DispatcherStops
  <2>3. ondeck' = ondeck \/ (~Idle(od) /\ ondeck' = [ondeck EXCEPT ![od.pair] = @ + 1])
    BY <2>1 DEF Stop, Redeliver
  <2>4. \A q \in Pairs : ondeck'[q] > 0 => ondeck[q] > 0 \/ (~Idle(od) /\ od.pair = q)
    BY <1>0, <2>3
  <2> QED
    BY <2>2, <2>4 DEF OdIdle, Idle
<1>3. ASSUME NEW p \in Pairs, OndeckReceives(p) PROVE OndeckInv'
  BY <1>0, <1>3 DEF OndeckReceives, Take, OdIdle, Idle
<1>4. CASE PlayMatch \/ RecordMatch
  BY <1>0, <1>4 DEF PlayMatch, RecordMatch, OndeckAt, Idle, broker
<1>5. CASE OndeckAcks
  BY <1>5 DEF OndeckAcks, broker, OdIdle, Idle
<1>6. ASSUME NEW x \in ready, NEW o \in ready, x \in Bots, o \in Bots, PublishMatch(x, o)
      PROVE  OndeckInv'
  <2>1. \A q \in Pairs : ondeck'[q] > 0 => ondeck[q] > 0 \/ q = <<x, o>>
    BY <1>0, <1>6 DEF PublishMatch, Publish
  <2>2. ready' = ready /\ od' = od /\ recorded' = recorded
    BY <1>6 DEF PublishMatch
  <2> QED
    BY <2>1, <2>2
<1> QED
  BY <1>0, <1>1, <1>2, <1>3, <1>4, <1>5, <1>6, StepCases, OndeckAside, SchedulerPublishes
  DEF QuietOndeck, SchedulerStep

\* What the mapping takes for the deck of the tournament.
Deck == [p \in Pairs |-> Unrecorded(p)]

\* A pairing's count goes up or down by one, and so does the deck.
LEMMA DeckChange ==
  ASSUME TypeOK, NEW q \in Pairs
  PROVE  /\ (\A p \in Pairs : Unrecorded(p)' = Unrecorded(p) + (IF p = q THEN 1 ELSE 0))
             => Deck' = [Deck EXCEPT ![q] = @ + 1]
         /\ (\A p \in Pairs : Unrecorded(p)' = Unrecorded(p) - (IF p = q THEN 1 ELSE 0))
             => Deck' = [Deck EXCEPT ![q] = @ - 1]
<1>1. PICK d : d = Deck
  OBVIOUS
<1>2. PICK e : e = Deck'
  OBVIOUS
<1>3. /\ d \in [Pairs -> Nat] /\ \A p \in Pairs : d[p] = Unrecorded(p)
      /\ e = [p \in Pairs |-> e[p]] /\ \A p \in Pairs : e[p] = Unrecorded(p)'
  BY <1>1, <1>2 DEF Deck, TypeOK, Unrecorded
<1>4. ASSUME \A p \in Pairs : Unrecorded(p)' = Unrecorded(p) + (IF p = q THEN 1 ELSE 0)
      PROVE  e = [d EXCEPT ![q] = @ + 1]
  <2>1. \A p \in Pairs : e[p] = [d EXCEPT ![q] = @ + 1][p]
    BY <1>3, <1>4
  <2> QED
    BY <1>3, <2>1
<1>5. ASSUME \A p \in Pairs : Unrecorded(p)' = Unrecorded(p) - (IF p = q THEN 1 ELSE 0)
      PROVE  e = [d EXCEPT ![q] = @ - 1]
  <2>1. \A p \in Pairs : e[p] = [d EXCEPT ![q] = @ - 1][p]
    BY <1>3, <1>5
  <2> QED
    BY <1>3, <2>1
<1> QED
  BY <1>1, <1>2, <1>4, <1>5

\* A step that moves a match between the queue and the handler, or none.
LEMMA DeckKept ==
  ASSUME IInv, OndeckInv,
         \/ UNCHANGED <<ondeck, od>>
         \/ (\E p \in Pairs : OndeckReceives(p)) \/ PlayMatch \/ OndeckAcks
  PROVE  Deck' = Deck
<1>0. /\ ondeck \in [Pairs -> Nat]
      /\ ~Idle(od) => od \in Playing
      /\ od \in Playing \cup {OdIdle}
  BY HandlerTypes DEF IInv, TypeOK
<1> SUFFICES ASSUME NEW q \in Pairs PROVE Unrecorded(q)' = Unrecorded(q)
  BY DEF Deck
<1>1. CASE UNCHANGED <<ondeck, od>>
  BY <1>1 DEF Unrecorded
<1>2. ASSUME NEW p \in Pairs, OndeckReceives(p) PROVE Unrecorded(q)' = Unrecorded(q)
  <2>1. /\ ondeck[p] > 0 /\ ondeck' = [ondeck EXCEPT ![p] = @ - 1] /\ od = OdIdle
        /\ od' = [step |-> "play", pair |-> p]
    BY <1>0, <1>2 DEF OndeckReceives, OndeckAt, OndeckInv, Take
  <2>2. ondeck'[q] = ondeck[q] - (IF p = q THEN 1 ELSE 0)
    BY <1>0, <2>1
  <2> QED
    BY <1>0, <2>1, <2>2 DEF Unrecorded, OdIdle
<1>3. CASE PlayMatch
  BY <1>0, <1>3 DEF PlayMatch, OndeckAt, Idle, broker, Unrecorded
<1>4. CASE OndeckAcks
  BY <1>0, <1>4 DEF OndeckAcks, OndeckAt, Idle, OdIdle, broker, Unrecorded
<1> QED
  BY <1>1, <1>2, <1>3, <1>4

\* A match that is recorded leaves the deck: it has been played.
LEMMA RecordRefines ==
  ASSUME IInv, RecordMatch
  PROVE  \E p \in Pairs : Promise!PlayOne(p)
<1>0. TypeOK
  BY DEF IInv
<1>1. PICK q \in Pairs : q = od.pair /\ od.step = "record" /\ od'.step = "ack"
  BY <1>0, HandlerTypes DEF RecordMatch, OndeckAt, Idle
<1>2. /\ UNCHANGED <<ready, handled, published, declared, stops, ondeck>>
      /\ recorded' = [recorded EXCEPT ![q] = @ + 1]
      /\ od'.pair = q
  BY <1>0, <1>1, HandlerTypes DEF RecordMatch, OndeckAt, Idle, broker, history
<1>3. \A p \in Pairs : /\ Unrecorded(p) = ondeck[p] + (IF p = q THEN 1 ELSE 0)
                       /\ Unrecorded(p)' = ondeck[p]
  BY <1>0, <1>1, <1>2 DEF Unrecorded, TypeOK
<1>4. ondeck \in [Pairs -> Nat]
  BY <1>0 DEF TypeOK
<1>5. \A p \in Pairs : Unrecorded(p)' = Unrecorded(p) - (IF p = q THEN 1 ELSE 0)
  BY <1>3, <1>4
<1>6. Deck[q] > 0
  BY <1>3, <1>4 DEF Deck
<1>7. Deck' = [Deck EXCEPT ![q] = @ - 1]
  BY <1>0, <1>5, DeckChange
<1> QED
  BY <1>2, <1>6, <1>7 DEF Promise!PlayOne, Promise!Fewer, Promise!More, Deck

\* A pairing that the scheduler publishes is scheduled.
LEMMA PublishRefines ==
  ASSUME IInv, NEW x \in ready, NEW o \in ready, x \in Bots, o \in Bots, PublishMatch(x, o),
         UNCHANGED handled
  PROVE  \E p \in Pairs : Promise!Schedule(p)
<1>1. PICK q \in Pairs : q = <<x, o>>
  BY DEF Pairs
<1>2. /\ UNCHANGED <<ready, declared, recorded, stops, od>>
      /\ ondeck' = IF "matches.ondeck" \in declared
                     THEN [ondeck EXCEPT ![q] = @ + 1] ELSE ondeck
      /\ published' = [published EXCEPT ![q] = @ + 1]
  BY <1>1 DEF PublishMatch, Publish
<1>3. ondeck \in [Pairs -> Nat]
  BY DEF IInv, TypeOK
<1>4. CASE "matches.ondeck" \in declared
  <2>1. \A p \in Pairs : Unrecorded(p)' = Unrecorded(p) + (IF p = q THEN 1 ELSE 0)
    BY <1>2, <1>3, <1>4 DEF Unrecorded
  <2>2. Deck' = [Deck EXCEPT ![q] = @ + 1]
    BY <2>1, DeckChange DEF IInv
  <2> QED
    BY <1>1, <1>2, <1>4, <2>2 DEF Promise!Schedule, Promise!More, Deck
<1>5. CASE "matches.ondeck" \notin declared
  <2>1. Deck' = Deck
    BY <1>2, <1>5 DEF Deck, Unrecorded
  <2> QED
    BY <1>1, <1>2, <1>5, <2>1 DEF Promise!Schedule, Promise!More, Deck
<1> QED
  BY <1>4, <1>5

\* Whatever ends the dispatcher, the match in ondeck_handler's hands is back
\* on deck or lost, and it has been played when it is back although recorded.
LEMMA StopRefines ==
  ASSUME IInv, OndeckInv, StopStep
  PROVE  Promise!Interrupt
<1>0. /\ TypeOK /\ ondeck \in [Pairs -> Nat]
      /\ ~Idle(od) => od \in Playing
  BY HandlerTypes DEF IInv, TypeOK
<1>1. PICK b, o \in BOOLEAN : Stop(b, o)
  BY DEF StopStep
<1>2. /\ UNCHANGED <<ready, handled, published, declared, recorded>> /\ od' = OdIdle
      /\ stops' = stops + 1
  BY <1>1 DEF Stop, DispatcherStops
<1>3. ondeck' = ondeck \/ (~Idle(od) /\ ondeck' = [ondeck EXCEPT ![od.pair] = @ + 1])
  BY <1>1 DEF Stop, Redeliver
<1>4. \A p \in Pairs : ondeck'[p] \in Nat /\ Unrecorded(p)' = ondeck'[p]
  BY <1>0, <1>2, <1>3 DEF Unrecorded, OdIdle
<1>5. CASE Idle(od)
  <2>1. \A p \in Pairs : Unrecorded(p) = ondeck[p]
    BY <1>0, <1>5 DEF Unrecorded, Idle
  <2>2. Deck' = Deck
    BY <1>3, <1>4, <1>5, <2>1 DEF Deck
  <2> QED
    BY <1>2, <2>2 DEF Promise!Interrupt, Deck
<1>6. CASE ~Idle(od)
  <2>1. PICK q \in Pairs : q = od.pair /\ od.step \in {"play", "record", "ack"}
    BY <1>0, <1>6
  <2>2. \A p \in Pairs : ondeck'[p] = ondeck[p] \/ (p = q /\ ondeck'[p] = ondeck[p] + 1)
    BY <1>0, <1>3, <2>1
  <2>3. CASE od.step \in {"play", "record"}
    <3>1. \A p \in Pairs : Unrecorded(p) = ondeck[p] + (IF p = q THEN 1 ELSE 0)
      BY <1>0, <2>1, <2>3 DEF Unrecorded
    <3>2. CASE ondeck' = ondeck
      <4>1. \A p \in Pairs : Unrecorded(p)' = Unrecorded(p) - (IF p = q THEN 1 ELSE 0)
        BY <1>0, <1>4, <3>1, <3>2
      <4>2. Deck[q] > 0
        BY <1>0, <3>1 DEF Deck
      <4>3. Deck' = [Deck EXCEPT ![q] = @ - 1]
        BY <1>0, <4>1, DeckChange
      <4> QED
        BY <1>2, <4>2, <4>3 DEF Promise!Interrupt, Promise!Lose, Promise!Fewer, Promise!Matches, Pairs, Deck
    <3>3. CASE ondeck' = [ondeck EXCEPT ![q] = @ + 1]
      <4>1. Deck' = Deck
        BY <1>0, <1>4, <3>1, <3>3 DEF Deck
      <4> QED
        BY <1>2, <4>1 DEF Promise!Interrupt, Deck
    <3> QED
      BY <1>3, <2>1, <3>2, <3>3
  <2>4. CASE od.step = "ack"
    <3>1. recorded[q] > 0
      BY <2>1, <2>4 DEF OndeckInv
    <3>2. \A p \in Pairs : Unrecorded(p) = ondeck[p]
      BY <1>0, <2>4 DEF Unrecorded
    <3>3. CASE ondeck' = ondeck
      <4>1. Deck' = Deck
        BY <1>4, <3>2, <3>3 DEF Deck
      <4> QED
        BY <1>2, <4>1 DEF Promise!Interrupt, Deck
    <3>4. CASE ondeck' = [ondeck EXCEPT ![q] = @ + 1]
      <4>1. Deck' = [Deck EXCEPT ![q] = @ + 1]
        BY <1>0, <1>4, <3>2, <3>4 DEF Deck
      <4> QED
        BY <1>2, <3>1, <4>1 DEF Promise!Interrupt, Promise!Repeat, Promise!More, Promise!Matches, Pairs, Deck
    <3> QED
      BY <1>3, <2>1, <3>3, <3>4
  <2> QED
    BY <2>1, <2>3, <2>4
<1> QED
  BY <1>5, <1>6

\* Every step of the pipeline is one of the tournament, or leaves it alone.
LEMMA TournamentStep ==
  ASSUME IInv, IInv', OndeckInv, [Next]_vars
  PROVE  [Promise!TournamentNext]_Promise!tournament
<1> SUFFICES ASSUME ~UNCHANGED Promise!tournament PROVE Promise!TournamentNext
  OBVIOUS
<1> USE DEF broker, history
<1>0. TypeOK /\ (~Idle(pb) => pb.bot \in Bots) /\ (~Idle(sc) => sc.bot \in Bots)
  BY HandlerTypes DEF IInv
<1>1. ASSUME UNCHANGED <<ready, handled, published, Deck, recorded, declared, stops>>
      PROVE  FALSE
  BY <1>1 DEF Promise!tournament, Deck
<1>2. CASE StopStep
  BY <1>2, StopRefines DEF Promise!TournamentNext
<1>3. CASE QuietBuilder \/ QuietFault \/ QuietProbe \/ Outside \/ UNCHANGED vars
  <2>1. UNCHANGED <<Deck, recorded, published, stops>>
    BY <1>3, DeckKept, OndeckAside
  <2>2. handled' = handled
    BY <1>3
    DEF QuietBuilder, QuietFault, QuietProbe, Outside, BuilderReceives, CreatePod, PodStarts,
      SetPodReady, PublishPodReady, BuilderAcks, EnqueueFails, PodLost, KillScheduler,
      SchedulerErrs, SchedulerStops, BuilderChannelCloses, SchedulerChannelCloses,
      StaleSchedulerRaises, Upload, Start, WebStep, EnqueueBuildPod, vars
  <2>3. CASE SetPodReady
    <3>1. PICK b \in Bots : b = pb.bot /\ ready' = ready \cup {b} /\ declared' = declared
      BY <1>0, <2>3 DEF SetPodReady, BuilderAt, Idle
    <3> QED
      BY <2>1, <2>2, <3>1 DEF Promise!TournamentNext, Promise!Join, Deck
  <2>4. CASE ~SetPodReady
    <3>1. ready' = ready /\ declared \subseteq declared'
      BY <1>3, <2>4
      DEF QuietBuilder, QuietFault, QuietProbe, Outside, BuilderReceives, CreatePod, PodStarts,
        PublishPodReady, BuilderAcks, EnqueueFails, PodLost, KillScheduler, SchedulerErrs,
        SchedulerStops, BuilderChannelCloses, SchedulerChannelCloses, StaleSchedulerRaises,
        Upload, Start, WebStep, EnqueueBuildPod, vars
    <3>2. ("matches.ondeck" \in declared)' # ("matches.ondeck" \in declared)
      BY <2>1, <2>2, <3>1 DEF Promise!tournament, Deck
    <3>3. ("matches.ondeck" \in declared') = TRUE
      BY <3>1, <3>2
    <3> QED
      BY <2>1, <2>2, <3>1, <3>3 DEF Promise!TournamentNext, Promise!OpenDeck, Deck
  <2> QED
    BY <2>3, <2>4
<1>4. ASSUME (\E b \in Bots : SchedulerReceives(b)) \/ ReadReadyBots PROVE FALSE
  <2>1. UNCHANGED <<Deck, recorded, published, stops>>
    BY <1>4, DeckKept, OndeckAside
  <2> QED
    BY <1>1, <1>4, <2>1 DEF SchedulerReceives, ReadReadyBots
<1>5. CASE (\E b \in Bots : EnqueueAsX(b)) \/ EnqueueAsO
  <2>1. PICK x, o \in ready : x \in Bots /\ o \in Bots /\ PublishMatch(x, o)
    BY <1>5, SchedulerPublishes
  <2>2. \E p \in Pairs : Promise!Schedule(p)
    BY <2>1, PublishRefines DEF PublishMatch
  <2> QED
    BY <2>2 DEF Promise!TournamentNext, Promise!Matches, Pairs
<1>6. CASE SchedulerAcks
  <2>1. UNCHANGED <<Deck, recorded, published, stops>>
    BY <1>6, DeckKept, OndeckAside
  <2>2. PICK b \in Bots : b = sc.bot /\ handled' = handled \cup {b}
    BY <1>0, <1>6 DEF SchedulerAcks, SchedulerAt, Idle
  <2>3. b \in ready /\ UNCHANGED <<ready, declared>>
    BY <1>6, <2>2 DEF SchedulerAcks, SchedulerAt, Idle, IInv, AnnouncedInv
  <2>4. \A a \in handled \cup {b} : published[<<a, b>>] > 0 /\ published[<<b, a>>] > 0
    BY <2>1, <2>2 DEF IInv, PairsCovered
  <2> QED
    BY <2>1, <2>2, <2>3, <2>4 DEF Promise!TournamentNext, Promise!Enter, Deck
<1>7. ASSUME (\E p \in Pairs : OndeckReceives(p)) \/ PlayMatch \/ OndeckAcks PROVE FALSE
  <2>1. Deck' = Deck
    BY <1>7, DeckKept
  <2> QED
    BY <1>1, <1>7, <2>1 DEF OndeckReceives, PlayMatch, OndeckAcks
<1>8. CASE RecordMatch
  <2>1. \E p \in Pairs : Promise!PlayOne(p)
    BY <1>8, RecordRefines DEF IInv
  <2> QED
    BY <2>1 DEF Promise!TournamentNext, Promise!Matches, Pairs
<1> QED
  BY <1>0, <1>2, <1>3, <1>4, <1>5, <1>6, <1>7, <1>8, StepCases DEF SchedulerStep, QuietOndeck

\* What a step adds to the matches accounted for differs from what it publishes
\* by no more than the ends of the dispatcher it makes.  Before matches.ondeck
\* exists it adds nothing else.
Balanced(p) ==
  /\ "matches.ondeck" \in declared =>
       /\ Accounted(p)' + published[p] + stops <= Accounted(p) + published'[p] + stops'
       /\ Accounted(p) + published'[p] + stops <= Accounted(p)' + published[p] + stops'
  /\ "matches.ondeck" \notin declared =>
       /\ Accounted(p)' + stops <= Accounted(p) + stops'
       /\ Accounted(p) + stops <= Accounted(p)' + stops'

\* In a tournament nothing but an interruption repeats or loses a match.
LEMMA Balance ==
  ASSUME TypeOK, TypeOK', [Promise!TournamentNext]_Promise!tournament, NEW p \in Pairs
  PROVE  Balanced(p)
<1>0. /\ Deck \in [Pairs -> Nat] /\ recorded \in [Pairs -> Nat]
      /\ Deck'[p] \in Nat /\ recorded'[p] \in Nat
      /\ published \in [Pairs -> Nat] /\ stops \in Nat
      /\ Accounted(p) = recorded[p] + Deck[p] /\ Accounted(p)' = recorded'[p] + Deck'[p]
  BY DEF TypeOK, Deck, Unrecorded, Accounted
<1>1. PICK d, r, s, t \in Nat : d = Deck[p] /\ r = recorded[p] /\ s = published[p] /\ t = stops
  BY <1>0
\* The numbers of p after the step.
<1>2. ASSUME \/ Deck'[p] + recorded'[p] = d + r /\ published'[p] = s /\ stops' = t
             \/ /\ published'[p] = s + 1 /\ recorded'[p] = r /\ stops' = t
                /\ \/ "matches.ondeck" \in declared /\ Deck'[p] = d + 1
                   \/ "matches.ondeck" \notin declared /\ Deck'[p] = d
             \/ /\ Deck'[p] \in {d - 1, d, d + 1} /\ recorded'[p] = r
                /\ published'[p] = s /\ stops' = t + 1
      PROVE  Balanced(p)
  <2>1. PICK e, f \in Int : e = Deck'[p] /\ f = recorded'[p]
    BY <1>0, <1>1, <1>2
  <2>2. Accounted(p) = r + d /\ Accounted(p)' = f + e
    BY <1>0, <1>1, <2>1
  <2> QED
    BY <1>1, <1>2, <2>1, <2>2 DEF Balanced
<1>3. CASE UNCHANGED Promise!tournament \/ Promise!OpenDeck
           \/ \E b \in Bots : Promise!Join(b) \/ Promise!Enter(b)
  <2>1. UNCHANGED <<Deck, recorded, published, stops>>
    BY <1>3 DEF Promise!tournament, Promise!OpenDeck, Promise!Join, Promise!Enter, Deck
  <2> QED
    BY <1>1, <1>2, <2>1
<1>4. ASSUME NEW q \in Pairs, Promise!Schedule(q) PROVE Balanced(p)
  <2>1. /\ UNCHANGED <<recorded, stops>> /\ published' = [published EXCEPT ![q] = @ + 1]
        /\ Deck' = IF "matches.ondeck" \in declared THEN [Deck EXCEPT ![q] = @ + 1] ELSE Deck
    BY <1>4 DEF Promise!Schedule, Promise!More, Deck
  <2> QED
    BY <1>0, <1>1, <1>2, <2>1
<1>5. ASSUME NEW q \in Pairs, Promise!PlayOne(q) PROVE Balanced(p)
  <2>1. /\ UNCHANGED <<published, stops>> /\ recorded' = [recorded EXCEPT ![q] = @ + 1]
        /\ Deck' = [Deck EXCEPT ![q] = @ - 1]
    BY <1>5 DEF Promise!PlayOne, Promise!More, Promise!Fewer, Deck
  <2> QED
    BY <1>0, <1>1, <1>2, <2>1
<1>6. CASE Promise!Interrupt
  <2>1. /\ UNCHANGED <<published, recorded>> /\ stops' = stops + 1
        /\ \/ Deck' = Deck
           \/ \E q \in Pairs : \/ Deck' = [Deck EXCEPT ![q] = @ - 1]
                              \/ Deck' = [Deck EXCEPT ![q] = @ + 1]
    BY <1>6
    DEF Promise!Interrupt, Promise!Lose, Promise!Repeat, Promise!More, Promise!Fewer,
      Promise!Matches, Pairs, Deck
  <2>2. Deck'[p] \in {Deck[p] - 1, Deck[p], Deck[p] + 1}
    BY <1>0, <2>1
  <2> QED
    BY <1>1, <1>2, <2>1, <2>2
<1> QED
  BY <1>3, <1>4, <1>5, <1>6 DEF Promise!TournamentNext, Promise!Matches, Pairs

\* What is published before matches.ondeck exists is dropped, and nothing else.
LEMMA DroppedStep ==
  ASSUME IInv, [Next]_vars, NEW p \in Pairs
  PROVE  /\ "matches.ondeck" \in declared => dropped'[p] = dropped[p]
         /\ "matches.ondeck" \notin declared =>
              dropped'[p] + published[p] = dropped[p] + published'[p]
<1> USE DEF broker, history
<1>0. /\ TypeOK /\ dropped \in [Pairs -> Nat] /\ published \in [Pairs -> Nat]
  BY DEF IInv, TypeOK
<1>1. ASSUME UNCHANGED <<dropped, published>>
      PROVE  /\ dropped'[p] = dropped[p]
             /\ dropped'[p] + published[p] = dropped[p] + published'[p]
  BY <1>0, <1>1
<1>2. CASE (\E b \in Bots : EnqueueAsX(b)) \/ EnqueueAsO
  <2>1. PICK x, o \in ready : x \in Bots /\ o \in Bots /\ PublishMatch(x, o)
    BY <1>2, SchedulerPublishes
  <2>2. PICK q \in Pairs : q = <<x, o>>
    BY <2>1 DEF Pairs
  <2>3. /\ published' = [published EXCEPT ![q] = @ + 1]
        /\ dropped' = IF "matches.ondeck" \in declared THEN dropped
                      ELSE [dropped EXCEPT ![q] = @ + 1]
    BY <2>1, <2>2 DEF PublishMatch
  <2> QED
    BY <1>0, <2>3
<1>3. CASE StopStep \/ QuietBuilder \/ QuietOndeck \/ UNCHANGED vars
  BY <1>1, <1>3
  DEF StopStep, Stop, DispatcherStops, QuietBuilder, BuilderReceives, CreatePod, PodStarts,
    SetPodReady, PublishPodReady, BuilderAcks, QuietOndeck, OndeckReceives, PlayMatch,
    RecordMatch, OndeckAcks, vars
<1>4. CASE (\E b \in Bots : SchedulerReceives(b)) \/ ReadReadyBots \/ SchedulerAcks
           \/ QuietFault \/ QuietProbe \/ Outside
  BY <1>1, <1>4
  DEF SchedulerReceives, ReadReadyBots, SchedulerAcks, QuietFault, EnqueueFails, PodLost,
    KillScheduler, SchedulerErrs, SchedulerStops, QuietProbe, BuilderChannelCloses,
    SchedulerChannelCloses, StaleSchedulerRaises, Outside, Upload, Start, WebStep,
    EnqueueBuildPod
<1> QED
  BY <1>0, <1>2, <1>3, <1>4, StepCases DEF SchedulerStep

\* What a step adds to the matches accounted for, or takes from them, stays
\* within the ends of the dispatcher.
LEMMA AccountedStep ==
  ASSUME IInv, IInv', OndeckInv, MatchesAccounted, [Next]_vars
  PROVE  MatchesAccounted'
<1> SUFFICES ASSUME NEW p \in Pairs
             PROVE  /\ Accounted(p)' + dropped'[p] <= published'[p] + stops'
                    /\ published'[p] <= Accounted(p)' + dropped'[p] + stops'
  BY DEF MatchesAccounted
<1>1. /\ Accounted(p) + dropped[p] <= published[p] + stops
      /\ published[p] <= Accounted(p) + dropped[p] + stops
  BY DEF MatchesAccounted
<1>2. /\ Accounted(p) \in Nat /\ published[p] \in Nat /\ stops \in Nat /\ dropped[p] \in Nat
      /\ Accounted(p)' \in Nat /\ published'[p] \in Nat /\ stops' \in Nat /\ dropped'[p] \in Nat
  BY DEF IInv, TypeOK, Accounted, Unrecorded
<1>3. Balanced(p)
  BY TournamentStep, Balance DEF IInv
<1>4. CASE "matches.ondeck" \in declared
  <2>1. dropped'[p] = dropped[p]
    BY <1>4, DroppedStep
  <2> QED
    BY <1>1, <1>2, <1>3, <1>4, <2>1 DEF Balanced
<1>5. CASE "matches.ondeck" \notin declared
  <2>1. dropped'[p] + published[p] = dropped[p] + published'[p]
    BY <1>5, DroppedStep
  <2> QED
    BY <1>1, <1>2, <1>3, <1>5, <2>1 DEF Balanced
<1> QED
  BY <1>4, <1>5
-----------------------------------------------------------------------------
(* How often the dispatcher ends. *)

\* A bot's build is enqueued once: before that it has no pod, and afterwards
\* its message is in the queue or with the handler, never in both, though a
\* handler whose channel was closed may go on with its bot.
BuildInv ==
  \A b \in Bots :
    /\ upload[b] # "enqueued" => pods[b] = "none" /\ build[b] = 0 /\ pb.bot # b
    /\ build[b] > 0 => build[b] = 1 /\ ~(pb.bot = b /\ pb.held)

\* The bots whose build is on its way to find their pod created, be it by the
\* handler that has lost its message.
Doomed ==
  {b \in Bots :
     \/ build[b] > 0 /\ (pods[b] # "none" \/ pb.bot = b)
     \/ pb.bot = b /\ pb.held /\ pb.step = "create" /\ pods[b] # "none"}

\* A handler without its channel may raise.
Stale == IF ~Idle(pb) /\ ~pb.held THEN 1 ELSE 0

\* What ends the dispatcher.
Causes == faults + podless + closings["pod_builder"]

\* Each doomed bot and each stale handler ends it once more.
StopsInv ==
  /\ IsFiniteSet(Doomed)
  /\ stops + Cardinality(Doomed) + Stale <= 2 * Causes

\* A build message is not doubled.
LEMMA BuildStep ==
  ASSUME IInv, BuildInv, [Next]_vars
  PROVE  BuildInv'
<1> USE DEF BuildInv, broker
<1>0. /\ TypeOK /\ build \in [Bots -> Nat]
      /\ pods \in [Bots -> PodStates]
      /\ upload \in [Bots -> {"none", "inserted", "enqueued", "failed"}]
      /\ ~Idle(pb) => pb \in Building
  BY HandlerTypes DEF IInv, TypeOK
<1>1. CASE StopStep
  <2>1. PICK p, o \in BOOLEAN : Stop(p, o)
    BY <1>1 DEF StopStep
  <2>2. upload' = upload /\ pb' = PbIdle
    BY <2>1 DEF Stop, DispatcherStops
  <2>3. build' = build \/ (pb.held /\ build' = [build EXCEPT ![pb.bot] = @ + 1])
    BY <2>1 DEF Stop, Redeliver
  <2>4. \A b \in Bots \ {pb.bot} : build'[b] = build[b] /\ pods'[b] = pods[b]
    BY <1>0, <2>1, <2>3 DEF Stop
  <2>5. ~Idle(pb) => build'[pb.bot] \in {0, 1} /\ upload[pb.bot] = "enqueued"
    BY <1>0, <2>3, HandlerTypes
  <2>6. \A b \in Bots : build'[b] \in {0, 1}
    BY <1>0, <2>3, <2>4, <2>5
  <2> QED
    BY <1>0, <2>2, <2>3, <2>4, <2>5, <2>6, BotsAssumption DEF PbIdle, Idle
<1>2. ASSUME NEW b \in Bots, BuilderReceives(b) PROVE BuildInv'
  <2>1. /\ build[b] > 0 /\ build' = [build EXCEPT ![b] = @ - 1]
        /\ pods' = pods /\ upload' = upload
        /\ pb' = [step |-> "create", bot |-> b, held |-> TRUE] \/ pb' = PbIdle
    BY <1>2 DEF BuilderReceives, Take
  <2>2. \A c \in Bots \ {b} : build'[c] = build[c]
    BY <1>0, <2>1
  <2>3. upload[b] = "enqueued"
    BY <1>0, <2>1
  <2>4. build'[b] = 0
    BY <1>0, <2>1
  <2> QED
    BY <1>0, <2>1, <2>2, <2>3, <2>4, BotsAssumption DEF PbIdle
<1>3. CASE CreatePod
  BY <1>0, <1>3 DEF CreatePod, BuilderAt, Idle
<1>4. CASE PodStarts \/ SetPodReady \/ PublishPodReady
  BY <1>0, <1>4 DEF PodStarts, SetPodReady, PublishPodReady, BuilderAt, Idle
<1>5. CASE BuilderAcks
  BY <1>5, BotsAssumption DEF BuilderAcks, PbIdle
<1>6. ASSUME UNCHANGED <<upload, pods, build, pb>> PROVE BuildInv'
  BY <1>6
<1>7. CASE SchedulerStep \/ QuietOndeck \/ UNCHANGED vars
  BY <1>6, <1>7 DEF SchedulerStep, SchedulerReceives, ReadReadyBots, EnqueueAsX, EnqueueAsO,
    PublishMatch, SchedulerAcks, QuietOndeck, OndeckReceives, PlayMatch, RecordMatch,
    OndeckAcks, vars
<1>8. CASE QuietFault
  <2>1. UNCHANGED <<build, pb>>
    BY <1>8 DEF QuietFault, EnqueueFails, PodLost, KillScheduler, SchedulerErrs,
      SchedulerStops
  <2>2. \A b \in Bots : /\ upload'[b] = "enqueued" <=> upload[b] = "enqueued"
                        /\ pods'[b] = "none" <=> pods[b] = "none"
    BY <1>0, <1>8 DEF QuietFault, EnqueueFails, PodLost, KillScheduler, SchedulerErrs,
      SchedulerStops
  <2> QED
    BY <2>1, <2>2
<1>9. CASE Outside
  <2>1. ASSUME NEW b \in Bots, Upload(b) PROVE BuildInv'
    BY <1>0, <2>1 DEF Upload
  <2>2. ASSUME NEW c \in Consumers, Start(c) PROVE BuildInv'
    BY <1>6, <2>2 DEF Start
  <2>3. ASSUME NEW b \in Bots, EnqueueBuildPod(b) PROVE BuildInv'
    BY <1>0, <2>3 DEF EnqueueBuildPod
  <2> QED
    BY <1>9, <2>1, <2>2, <2>3 DEF Outside, WebStep
<1>10. CASE BuilderChannelCloses
  <2>1. PICK b \in Bots : b = pb.bot
    BY <1>0, <1>10, HandlerTypes DEF BuilderChannelCloses
  <2>2. /\ UNCHANGED <<upload, pods>> /\ build' = [build EXCEPT ![b] = @ + 1]
        /\ pb'.bot = b /\ pb'.held = FALSE
    BY <1>0, <1>10, <2>1, HandlerTypes DEF BuilderChannelCloses
  <2>3. upload[b] = "enqueued" /\ build'[b] = 1
    BY <1>0, <1>10, <2>1, <2>2 DEF BuilderChannelCloses
  <2>4. \A c \in Bots \ {b} : build'[c] = build[c]
    BY <1>0, <2>2
  <2> QED
    BY <1>0, <2>1, <2>2, <2>3, <2>4
<1>11. CASE SchedulerChannelCloses \/ StaleSchedulerRaises
  BY <1>6, <1>11 DEF SchedulerChannelCloses, StaleSchedulerRaises, SchedulerStops
<1> QED
  BY <1>0, <1>1, <1>2, <1>3, <1>4, <1>5, <1>7, <1>8, <1>9, <1>10, <1>11, StepCases
  DEF QuietBuilder, QuietProbe

\* The dispatcher and its causes are counted in numbers.
LEMMA CauseTypes ==
  ASSUME TypeOK
  PROVE  /\ Causes \in Nat /\ stops \in Nat /\ Stale \in {0, 1}
         /\ faults \in Nat /\ podless \in Nat /\ closings["pod_builder"] \in Nat
<1>1. faults \in Nat /\ podless \in Nat /\ closings["pod_builder"] \in Nat
  BY FaultsAssumption, ClosingsAssumption DEF TypeOK, Publishers
<1> QED
  BY <1>1 DEF TypeOK, Causes, Stale

\* Apart from the ends of the dispatcher, and from a channel that is closed
\* under pod_builder, no bot becomes doomed and no handler stale.
LEMMA DoomedQuiet ==
  ASSUME IInv, TypeOK', BuildInv, [Next]_vars, ~StopStep, ~BuilderChannelCloses
  PROVE  /\ Doomed' \subseteq Doomed /\ Stale' <= Stale
         /\ UNCHANGED stops /\ Causes <= Causes'
<1> USE DEF broker, history
<1>0. /\ TypeOK /\ build \in [Bots -> Nat] /\ pods \in [Bots -> PodStates]
      /\ ~Idle(pb) => pb \in Building
      /\ closings \in [Publishers -> 0 .. MaxClosings]
  BY HandlerTypes DEF IInv, TypeOK
<1>1. UNCHANGED <<stops, podless>> /\ closings'["pod_builder"] = closings["pod_builder"]
      /\ (faults' = faults \/ faults' = faults + 1)
  <2>1. CASE QuietBuilder
    BY <2>1 DEF QuietBuilder, BuilderReceives, CreatePod, PodStarts, SetPodReady,
      PublishPodReady, BuilderAcks
  <2>2. CASE SchedulerStep
    BY <2>2 DEF SchedulerStep, SchedulerReceives, ReadReadyBots, EnqueueAsX, EnqueueAsO,
      PublishMatch, SchedulerAcks
  <2>3. CASE QuietOndeck \/ Outside \/ UNCHANGED vars
    BY <2>3 DEF QuietOndeck, OndeckReceives, PlayMatch, RecordMatch, OndeckAcks, Outside,
      Upload, Start, WebStep, EnqueueBuildPod, vars
  <2>4. CASE QuietFault
    BY <2>4 DEF QuietFault, EnqueueFails, PodLost, KillScheduler, SchedulerErrs,
      SchedulerStops, Fault
  <2>5. CASE SchedulerChannelCloses
    BY <1>0, <2>5 DEF SchedulerChannelCloses, Closing, Publishers
  <2>6. CASE StaleSchedulerRaises
    BY <2>6 DEF StaleSchedulerRaises, SchedulerStops
  <2> QED
    BY <1>0, <2>1, <2>2, <2>3, <2>4, <2>5, <2>6, StepCases DEF QuietProbe
<1>2. Causes <= Causes'
  BY <1>0, <1>1, CauseTypes DEF Causes
\* Steps that leave pod_builder and its queue alone.
<1>3. ASSUME UNCHANGED <<build, pb>>, \A b \in Bots : pods'[b] # "none" => pods[b] # "none"
      PROVE  Doomed' \subseteq Doomed /\ Stale' <= Stale
  BY <1>3 DEF Doomed, Stale, Idle
<1>4. CASE SchedulerStep \/ QuietOndeck \/ SchedulerChannelCloses \/ StaleSchedulerRaises
           \/ UNCHANGED vars
  <2>1. UNCHANGED <<build, pb, pods>>
    BY <1>4 DEF SchedulerStep, SchedulerReceives, ReadReadyBots, EnqueueAsX, EnqueueAsO,
      PublishMatch, SchedulerAcks, QuietOndeck, OndeckReceives, PlayMatch, RecordMatch,
      OndeckAcks, SchedulerChannelCloses, StaleSchedulerRaises, SchedulerStops, vars
  <2> QED
    BY <1>1, <1>2, <1>3, <2>1
<1>5. CASE QuietFault
  BY <1>0, <1>1, <1>2, <1>3, <1>5 DEF QuietFault, EnqueueFails, PodLost, KillScheduler,
    SchedulerErrs, SchedulerStops
<1>6. CASE Outside
  <2>1. ASSUME NEW b \in Bots, EnqueueBuildPod(b)
        PROVE  Doomed' \subseteq Doomed /\ Stale' <= Stale
    <3>1. /\ build' = [build EXCEPT ![b] = @ + 1] /\ UNCHANGED <<pods, pb>>
          /\ pods[b] = "none" /\ pb.bot # b
      BY <2>1 DEF EnqueueBuildPod, BuildInv
    <3> QED
      BY <1>0, <3>1 DEF Doomed, Stale, Idle
  <2> QED
    BY <1>1, <1>2, <1>3, <1>6, <2>1 DEF Outside, Upload, Start, WebStep
<1>7. ASSUME NEW b \in Bots, BuilderReceives(b)
      PROVE  Doomed' \subseteq Doomed /\ Stale' <= Stale
  <2>1. /\ build[b] > 0 /\ build' = [build EXCEPT ![b] = @ - 1] /\ pods' = pods
        /\ pb' = [step |-> "create", bot |-> b, held |-> TRUE] \/ pb' = PbIdle
    BY <1>7 DEF BuilderReceives, Take
  <2>2. /\ build'[b] = 0 /\ \A c \in Bots \ {b} : build'[c] = build[c]
        /\ Stale' = 0 /\ Stale \in {0, 1}
    BY <1>0, <2>1 DEF BuildInv, Stale, Idle, PbIdle
  <2> QED
    BY <2>1, <2>2, BotsAssumption DEF Doomed, PbIdle
\* Steps of the handler: it keeps its bot, and the message or its loss.
<1>8. ASSUME pb.bot \in Bots, ~Idle(pb), UNCHANGED <<build, pb.bot, pb.held>>,
             pb'.step # "create", pb'.step # "idle",
             \A c \in Bots \ {pb.bot} : pods'[c] = pods[c]
      PROVE  Doomed' \subseteq Doomed /\ Stale' <= Stale
  BY <1>0, <1>8 DEF Doomed, Stale, Idle
<1>9. CASE CreatePod \/ PodStarts \/ SetPodReady \/ PublishPodReady
  <2>1. pb \in Building /\ ~Idle(pb)
    BY <1>0, <1>9 DEF CreatePod, PodStarts, SetPodReady, PublishPodReady, BuilderAt, Idle
  <2>2. /\ build' = build /\ pb'.step \in {"wait", "set_ready", "publish", "ack"}
        /\ pb'.bot = pb.bot /\ pb'.held = pb.held
    BY <1>9, <2>1 DEF CreatePod, PodStarts, SetPodReady, PublishPodReady
  <2>3. \A c \in Bots \ {pb.bot} : pods'[c] = pods[c]
    BY <1>0, <1>9 DEF CreatePod, PodStarts, SetPodReady, PublishPodReady
  <2> QED
    BY <1>1, <1>2, <1>8, <2>1, <2>2, <2>3
<1>10. CASE BuilderAcks
  <2>1. pb' = PbIdle /\ UNCHANGED <<build, pods>>
    BY <1>10 DEF BuilderAcks
  <2> QED
    BY <1>0, <1>1, <1>2, <2>1, BotsAssumption DEF Doomed, Stale, Idle, PbIdle
<1> QED
  BY <1>0, <1>1, <1>2, <1>4, <1>5, <1>6, <1>7, <1>9, <1>10, StepCases
  DEF QuietBuilder, QuietProbe

\* The bound on the ends of the dispatcher is kept.
LEMMA StopsStep ==
  ASSUME IInv, TypeOK', BuildInv, StopsInv, [Next]_vars
  PROVE  StopsInv'
<1> USE DEF broker, history
<1>0. /\ TypeOK /\ build \in [Bots -> Nat] /\ pods \in [Bots -> PodStates]
      /\ ~Idle(pb) => pb \in Building
  BY HandlerTypes DEF IInv, TypeOK
<1>1. PICK D : D = Doomed
  OBVIOUS
<1>2. PICK E : E = Doomed'
  OBVIOUS
<1>3. PICK k, m, s, u \in Nat : k = Causes /\ m = Cardinality(D) /\ s = stops /\ u = Stale
  BY <1>0, <1>1, CauseTypes, FS_CardinalityType DEF StopsInv
<1>4. IsFiniteSet(D) /\ s + m + u <= 2 * k
  BY <1>1, <1>3 DEF StopsInv
<1>5. Causes' \in Nat /\ stops' \in Nat /\ Stale' \in {0, 1}
  <2>1. faults' \in Nat /\ podless' \in Nat /\ closings'["pod_builder"] \in Nat
    BY FaultsAssumption, ClosingsAssumption DEF TypeOK, Publishers
  <2> QED
    BY <2>1 DEF TypeOK, Causes, Stale
\* What is to be shown of the cardinality of the doomed bots.
<1>6. ASSUME IsFiniteSet(E), Cardinality(E) \in Nat,
             stops' + Cardinality(E) + Stale' <= 2 * Causes'
      PROVE  StopsInv'
  BY <1>2, <1>6 DEF StopsInv
<1>7. ASSUME E \subseteq D
      PROVE  IsFiniteSet(E) /\ Cardinality(E) \in Nat /\ Cardinality(E) <= m
  BY <1>3, <1>4, <1>7, FS_Subset, FS_CardinalityType
<1>8. ASSUME NEW c, E \subseteq D \cup {c}
      PROVE  IsFiniteSet(E) /\ Cardinality(E) \in Nat /\ Cardinality(E) <= m + 1
  <2>1. /\ IsFiniteSet(D \cup {c})
        /\ Cardinality(D \cup {c}) = IF c \in D THEN Cardinality(D) ELSE Cardinality(D) + 1
    BY <1>4, FS_AddElement
  <2>2. Cardinality(D \cup {c}) \in Nat /\ Cardinality(D \cup {c}) <= m + 1
    BY <1>3, <2>1
  <2>3. IsFiniteSet(E) /\ Cardinality(E) <= Cardinality(D \cup {c}) /\ Cardinality(E) \in Nat
    BY <1>8, <2>1, FS_Subset, FS_CardinalityType
  <2> QED
    BY <2>2, <2>3
<1>9. ASSUME ~StopStep, ~BuilderChannelCloses PROVE StopsInv'
  <2>1. /\ E \subseteq D /\ Stale' <= u /\ stops' = s /\ k <= Causes'
    BY <1>1, <1>2, <1>3, <1>9, DoomedQuiet
  <2>2. IsFiniteSet(E) /\ Cardinality(E) \in Nat /\ Cardinality(E) <= m
    BY <1>7, <2>1
  <2> QED
    BY <1>3, <1>4, <1>5, <1>6, <2>1, <2>2
<1>10. CASE BuilderChannelCloses
  <2>1. PICK c \in Bots : c = pb.bot
    BY <1>0, <1>10, HandlerTypes DEF BuilderChannelCloses
  <2>2. /\ pb.held /\ UNCHANGED <<pods, pb.step, pb.bot>> /\ ~pb'.held
        /\ build' = [build EXCEPT ![c] = @ + 1]
        /\ UNCHANGED <<faults, podless, stops>>
        /\ closings'["pod_builder"] = closings["pod_builder"] + 1
    BY <1>0, <1>10, <2>1, HandlerTypes
    DEF BuilderChannelCloses, Closing, TypeOK, Publishers
  <2>3. u = 0 /\ stops' = s /\ Causes' = k + 1
    BY <1>0, <1>3, <2>2, CauseTypes DEF Stale, Causes
  <2>4. E \subseteq D \cup {c}
    BY <1>0, <1>1, <1>2, <2>1, <2>2 DEF Doomed
  <2>5. IsFiniteSet(E) /\ Cardinality(E) \in Nat /\ Cardinality(E) <= m + 1
    BY <1>8, <2>4
  <2> QED
    BY <1>3, <1>4, <1>5, <1>6, <2>3, <2>5
<1>11. CASE StopStep
  <2>1. PICK p, o \in BOOLEAN : Stop(p, o)
    BY <1>11 DEF StopStep
  <2>2. stops' = s + 1 /\ pb' = PbIdle /\ closings' = closings /\ Stale' = 0
    BY <1>3, <2>1 DEF Stop, DispatcherStops, Stale, Idle, PbIdle
  <2>3. build' = build \/ (p /\ pb.held /\ build' = [build EXCEPT ![pb.bot] = @ + 1])
    BY <2>1 DEF Stop, Redeliver
  <2>4. PICK c : c = pb.bot
    OBVIOUS
  <2>5. \A b \in Bots \ {c} : pods'[b] = pods[b] /\ build'[b] = build[b]
    BY <1>0, <2>1, <2>3, <2>4 DEF Stop
  <2>6. CASE faults' + podless' = faults + podless + 1
    <3>1. Causes' = k + 1
      <4>1. faults' \in Nat /\ podless' \in Nat
        BY FaultsAssumption DEF TypeOK
      <4> QED
        BY <1>0, <1>3, <2>2, <2>6, <4>1, CauseTypes DEF Causes
    <3>2. E \subseteq D \cup {c}
      BY <1>1, <1>2, <2>2, <2>5, BotsAssumption DEF Doomed, PbIdle
    <3>3. IsFiniteSet(E) /\ Cardinality(E) \in Nat /\ Cardinality(E) <= m + 1
      BY <1>8, <3>2
    <3> QED
      BY <1>3, <1>4, <1>5, <1>6, <2>2, <3>1, <3>3
  <2>7. CASE /\ ~p /\ pb.step # "idle" /\ pods' = pods
             /\ ~pb.held \/ (pb.step = "create" /\ pods[pb.bot] # "none")
             /\ UNCHANGED <<faults, podless>>
    <3>1. Causes' = k /\ build' = build /\ c \in Bots
      BY <1>0, <1>3, <2>2, <2>3, <2>4, <2>7 DEF Causes, Idle
    <3>2. E \subseteq D
      BY <1>1, <1>2, <2>2, <2>7, <3>1, BotsAssumption DEF Doomed, PbIdle
    <3>3. IsFiniteSet(E) /\ Cardinality(E) \in Nat /\ Cardinality(E) <= m
      BY <1>7, <3>2
    <3>4. CASE ~pb.held
      <4>1. u = 1
        BY <1>3, <2>7, <3>4 DEF Stale, Idle
      <4> QED
        BY <1>3, <1>4, <1>5, <1>6, <2>2, <3>1, <3>3, <4>1
    <3>5. CASE pb.held /\ pb.step = "create" /\ pods[c] # "none"
      <4>1. c \in D /\ c \notin E
        BY <1>0, <1>1, <1>2, <2>2, <2>4, <3>1, <3>5, BotsAssumption
        DEF BuildInv, Doomed, PbIdle
      <4>2. E \subseteq D \ {c}
        BY <3>2, <4>1
      <4>3. IsFiniteSet(D \ {c}) /\ Cardinality(D \ {c}) = m - 1
        BY <1>3, <1>4, <4>1, FS_RemoveElement
      <4>4. Cardinality(E) <= m - 1
        BY <4>2, <4>3, FS_Subset
      <4> QED
        BY <1>3, <1>4, <1>5, <1>6, <2>2, <3>1, <3>3, <4>4
    <3> QED
      BY <2>4, <2>7, <3>4, <3>5
  <2> QED
    BY <2>1, <2>6, <2>7 DEF Stop
<1> QED
  BY <1>9, <1>10, <1>11
-----------------------------------------------------------------------------
(* The theorems. *)

\* The inductive invariant of the bounds, on top of IInv.
BoundsInv ==
  /\ IInv
  /\ MirrorInv /\ CountInv
  /\ OndeckInv /\ MatchesAccounted
  /\ BuildInv /\ StopsInv

\* It holds in every reachable state, however many bots and faults there are.
THEOREM BoundsInvariance == Spec => []BoundsInv
<1>1. Init => BoundsInv
  <2> SUFFICES ASSUME Init PROVE BoundsInv
    OBVIOUS
  <2>1. IInv
    BY FaultsAssumption, ClosingsAssumption, DeclaredAssumption
    DEF Init, IInv, TypeOK, ReadyInv, AnnouncedInv, ProgressInv, PairsCovered, Answered,
      PbIdle, ScIdle, OdIdle, Idle, Pairs
  <2>2. MirrorInv
    BY DEF Init, MirrorInv, ScIdle
  <2>3. CountInv
    <3>1. \A b \in Bots : Left(b) = 1
      BY DEF Init, Left, Coming
    <3>2. \A x, o \in Bots : published[<<x, o>>] = 0 /\ AsX(x, o) = 0 /\ AsO(x, o) = 0
      BY BotsAssumption DEF Init, AsX, AsO, ScIdle, Pairs
    <3>3. Repeats = 0
      BY DEF Init, Repeats, Publishers
    <3>4. ASSUME NEW x \in Bots, NEW o \in Bots
          PROVE  published[<<x, o>>] + Left(x) + AsX(x, o)
                   + (IF x = o THEN 0 ELSE Left(o) + AsO(x, o))
                     <= (IF x = o THEN 1 ELSE 2) + Repeats
      <4>1. /\ published[<<x, o>>] = 0 /\ AsX(x, o) = 0 /\ AsO(x, o) = 0
            /\ Left(x) = 1 /\ Left(o) = 1
        BY <3>1, <3>2
      <4> QED
        BY <3>3, <4>1
    <3> QED
      BY <3>4 DEF CountInv
  <2>4. OndeckInv
    BY DEF Init, OndeckInv, Idle, OdIdle
  <2>5. MatchesAccounted
    BY DEF Init, MatchesAccounted, Accounted, Unrecorded, OdIdle
  <2>6. BuildInv
    BY BotsAssumption DEF Init, BuildInv, PbIdle
  <2>7. Doomed = {}
    BY DEF Init, Doomed
  <2>8. stops = 0 /\ Causes = 0 /\ Stale = 0
    BY DEF Init, Causes, Stale, Idle, PbIdle, Publishers
  <2>9. StopsInv
    BY <2>7, <2>8, FS_EmptySet DEF StopsInv
  <2> QED
    BY <2>1, <2>2, <2>3, <2>4, <2>5, <2>6, <2>9 DEF BoundsInv
<1>2. BoundsInv /\ [Next]_vars => BoundsInv'
  <2> SUFFICES ASSUME BoundsInv, [Next]_vars PROVE BoundsInv'
    OBVIOUS
  <2>1. TypeOK
    BY DEF BoundsInv, IInv
  <2>2. IInv'
    BY TypeStep, ReadyStep, AnnouncedStep, CoverStep DEF BoundsInv, IInv
  <2>3. TypeOK'
    BY <2>2 DEF IInv
  <2>4. MirrorInv' /\ CountInv'
    BY <2>1, <2>3, MirrorStep, CountStep DEF BoundsInv
  <2>5. OndeckInv'
    BY OndeckInvStep DEF BoundsInv
  <2>6. MatchesAccounted'
    BY <2>2, AccountedStep DEF BoundsInv
  <2>7. BuildInv' /\ StopsInv'
    BY <2>1, <2>3, BuildStep, StopsStep DEF BoundsInv
  <2> QED
    BY <2>2, <2>4, <2>5, <2>6, <2>7 DEF BoundsInv
<1> QED
  BY <1>1, <1>2, PTL DEF Spec

\* match_scheduler puts a pairing on deck at most once for each of its bots'
\* announcements, and once more for each fault and each time a probe closed its
\* channel: nothing is announced twice.
THEOREM SchedulingCorrect == Spec => []SchedulingBounded
<1>1. BoundsInv => SchedulingBounded
  <2> SUFFICES ASSUME BoundsInv, NEW p \in Pairs
               PROVE  published[p] <= (IF p[1] = p[2] THEN 1 ELSE 2)
                                        + faults + closings["match_scheduler"]
    BY DEF SchedulingBounded
  <2>0. faults \in Nat /\ closings["match_scheduler"] \in Nat
    BY CountTypes DEF BoundsInv, IInv
  <2>1. PICK x, o \in Bots : p = <<x, o>>
    BY DEF Pairs
  <2>2. /\ Repeats \in Nat /\ Left(x) \in Nat /\ Left(o) \in Nat
        /\ AsX(x, o) \in Nat /\ AsO(x, o) \in Nat /\ published[<<x, o>>] \in Nat
    BY CountTypes DEF BoundsInv, IInv
  <2>3. published[<<x, o>>] + Left(x) + AsX(x, o)
          + (IF x = o THEN 0 ELSE Left(o) + AsO(x, o))
            <= (IF x = o THEN 1 ELSE 2) + Repeats
    BY DEF BoundsInv, CountInv
  <2> QED
    BY <2>0, <2>1, <2>2, <2>3 DEF Repeats
<1> QED
  BY <1>1, BoundsInvariance, PTL

\* From any broker: the matches of a pairing that are recorded, on deck or being
\* played are those match_scheduler published, less those it published before
\* matches.ondeck existed, give or take one per end of the dispatcher.
THEOREM MatchesCorrect == Spec => []MatchesAccounted
<1>1. BoundsInv => MatchesAccounted
  BY DEF BoundsInv
<1> QED
  BY <1>1, BoundsInvariance, PTL

\* The dispatcher ends at most twice per fault, per match whose pod has no IP and
\* per channel that a probe closed under pod_builder, from any broker: the builds
\* it finds already made do not keep it from coming back.
THEOREM StopsCorrect == Spec => []StopsBounded
<1>1. BoundsInv => StopsBounded
  <2> SUFFICES ASSUME BoundsInv PROVE StopsBounded
    OBVIOUS
  <2>1. /\ Cardinality(Doomed) \in Nat
        /\ stops + Cardinality(Doomed) + Stale <= 2 * Causes
    BY FS_CardinalityType DEF BoundsInv, StopsInv
  <2>2. stops \in Nat /\ Causes \in Nat /\ Stale \in {0, 1}
    BY CauseTypes DEF BoundsInv, IInv
  <2>3. stops <= 2 * Causes
    BY <2>1, <2>2
  <2> QED
    BY <2>3 DEF StopsBounded, Causes
<1> QED
  BY <1>1, BoundsInvariance, PTL

\* The pipeline holds a tournament, for any number of bots and faults and from
\* any broker: a bot counts as handled once it is paired with all handled before
\* it, each result was on deck, and an end of the dispatcher touches one match.
THEOREM TournamentCorrect == Spec => PlaysTournament
<1>1. Init => Promise!TournamentInit
  BY DEF Init, Promise!TournamentInit, Promise!Matches, Pairs, Unrecorded, OdIdle
<1>2. BoundsInv /\ BoundsInv' /\ [Next]_vars => [Promise!TournamentNext]_Promise!tournament
  BY TournamentStep DEF BoundsInv
<1> QED
  BY <1>1, <1>2, BoundsInvariance, PTL DEF Spec, PlaysTournament, Promise!TournamentSpec

\* From the upload to the table: a pairing has at most one row for each of its
\* bots' announcements, more for what the scheduler published again after a
\* fault or a closed channel, and one per end of the dispatcher for what was
\* played again.
ResultsBounded ==
  \A p \in Pairs :
    recorded[p] <= (IF p[1] = p[2] THEN 1 ELSE 2) + Repeats + 2 * Causes

\* While nothing has failed, no match has found a pod without an IP and no probe
\* has closed a channel, every pairing of handled bots is on deck, in play or
\* recorded, or came before matches.ondeck existed: once against itself, else
\* once or twice.
NoneMissing ==
  faults = 0 /\ podless = 0 /\ (\A c \in Publishers : closings[c] = 0)
    => \A a, b \in handled :
         Accounted(<<a, b>>) + dropped[<<a, b>>] \in 1 .. (IF a = b THEN 1 ELSE 2)

\* The bounds of the three consumers together bound the matches table: each
\* crash, and each probe that closes a channel, costs it a bounded number of
\* rows, however many bots there are.
THEOREM ResultsCorrect == Spec => [](ResultsBounded /\ NoneMissing)
<1>1. ASSUME SchedulingBounded, MatchesAccounted, StopsBounded, PairsCovered, TypeOK
      PROVE  ResultsBounded /\ NoneMissing
  <2>0. /\ faults \in Nat /\ closings["match_scheduler"] \in Nat
        /\ Repeats \in Nat /\ Causes \in Nat /\ stops \in Nat /\ handled \subseteq Bots
    BY <1>1, FaultsAssumption, ClosingsAssumption, CountTypes, CauseTypes
    DEF TypeOK, Publishers
  <2>1. ASSUME NEW p \in Pairs
        PROVE  /\ recorded[p] \in Nat /\ published[p] \in Nat /\ Unrecorded(p) \in Nat
               /\ dropped[p] \in Nat /\ Accounted(p) = recorded[p] + Unrecorded(p)
               /\ Accounted(p) + dropped[p] <= published[p] + stops
               /\ published[p] <= Accounted(p) + dropped[p] + stops
               /\ published[p] <= (IF p[1] = p[2] THEN 1 ELSE 2) + Repeats
    <3>1. /\ Accounted(p) + dropped[p] <= published[p] + stops
          /\ published[p] <= Accounted(p) + dropped[p] + stops
      BY <1>1 DEF MatchesAccounted
    <3>2. published[p]
            <= (IF p[1] = p[2] THEN 1 ELSE 2) + faults + closings["match_scheduler"]
      BY <1>1 DEF SchedulingBounded
    <3>3. /\ recorded[p] \in Nat /\ published[p] \in Nat /\ Unrecorded(p) \in Nat
          /\ dropped[p] \in Nat
      BY <1>1 DEF TypeOK, Unrecorded
    <3>4. published[p] <= (IF p[1] = p[2] THEN 1 ELSE 2) + Repeats
      BY <2>0, <3>2, <3>3 DEF Repeats
    <3> QED
      BY <3>1, <3>3, <3>4 DEF Accounted
  <2>2. stops <= 2 * Causes
    BY <1>1 DEF StopsBounded, Causes
  <2>3. ASSUME NEW p \in Pairs
        PROVE  recorded[p] <= (IF p[1] = p[2] THEN 1 ELSE 2) + Repeats + 2 * Causes
    BY <2>0, <2>1, <2>2
  <2>4. ASSUME faults = 0, podless = 0,
               \A c \in Publishers : closings[c] = 0,
               NEW a \in handled, NEW b \in handled
        PROVE  Accounted(<<a, b>>) + dropped[<<a, b>>] \in 1 .. (IF a = b THEN 1 ELSE 2)
    <3>1. PICK p \in Pairs : p = <<a, b>>
      BY <2>0 DEF Pairs
    <3>2. published[p] > 0
      BY <1>1, <3>1 DEF PairsCovered
    <3>3. Causes = 0 /\ Repeats = 0
      BY <2>4 DEF Publishers, Causes, Repeats
    <3>4. stops = 0
      BY <2>0, <2>2, <3>3
    <3>5. (p[1] = p[2]) = (a = b)
      BY <3>1
    <3> QED
      BY <2>0, <2>1, <2>4, <3>1, <3>2, <3>3, <3>4, <3>5
  <2> QED
    BY <2>3, <2>4 DEF ResultsBounded, NoneMissing
<1> QED
  BY <1>1, SchedulingCorrect, MatchesCorrect, StopsCorrect,
    PairsCoveredCorrect, TypeCorrect, PTL

=============================================================================
