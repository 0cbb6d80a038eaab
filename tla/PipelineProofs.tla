--------------------------- MODULE PipelineProofs ---------------------------
(***************************************************************************)
(* Pipeline proved for any number of bots, faults and closed channels,     *)
(* from any set of queues that an earlier run left declared.               *)
(***************************************************************************)
EXTENDS Pipeline, TLAPS

USE DEF Building, Publishing, Playing, PodStates

\* A bag stays one when a message is added, published or taken.
LEMMA BagFacts ==
  ASSUME NEW K, NEW bag \in [K -> Nat], NEW k \in K
  PROVE  /\ [bag EXCEPT ![k] = @ + 1] \in [K -> Nat]
         /\ \A q : Publish(q, bag, k) \in [K -> Nat]
         /\ bag[k] > 0 => Take(bag, k) \in [K -> Nat]
BY DEF Publish, Take

\* A fault is counted within the bound.
LEMMA FaultType ==
  ASSUME NEW kind, Fault(kind), faults \in 0 .. MaxFaults
  PROVE  faults' \in 0 .. MaxFaults
BY FaultsAssumption DEF Fault

\* What the three handlers can be doing.
LEMMA HandlerTypes ==
  ASSUME TypeOK
  PROVE  /\ ~Idle(pb) => pb \in Building
         /\ ~Idle(sc) => sc \in Publishing
         /\ ~Idle(od) => od \in Playing
         /\ pb.held => pb \in Building
         /\ sc.held => sc \in Publishing
BY DEF TypeOK, Idle, PbIdle, ScIdle, OdIdle

\* Stopping the dispatcher keeps the types.
LEMMA StopType ==
  ASSUME TypeOK, DispatcherStops,
         NEW p \in BOOLEAN, NEW o \in BOOLEAN, Redeliver(p, o),
         pods' \in [Bots -> PodStates],
         faults' \in 0 .. MaxFaults, podless' \in Nat
  PROVE  TypeOK'
<1>1. pb.held => pb.bot \in Bots
  BY HandlerTypes
<1>2. ~Idle(od) => od.pair \in Pairs
  BY HandlerTypes
<1>3. build' \in [Bots -> Nat]
  BY <1>1, BagFacts DEF TypeOK, Redeliver
<1>4. ondeck' \in [Pairs -> Nat]
  BY <1>2, BagFacts DEF TypeOK, Redeliver
<1> QED
  BY <1>3, <1>4 DEF TypeOK, DispatcherStops, PbIdle, OdIdle, history

\* A step of pod_builder keeps the types.
LEMMA BuilderType == TypeOK /\ BuilderStep => TypeOK'
<1> SUFFICES ASSUME TypeOK, BuilderStep PROVE TypeOK'
  OBVIOUS
<1> USE DEF broker, history
<1>1. ASSUME NEW b \in Bots, BuilderReceives(b) PROVE TypeOK'
  <2>1. build' \in [Bots -> Nat]
    BY <1>1, BagFacts DEF BuilderReceives, TypeOK
  <2>2. pb' \in Building
                  \cup {PbIdle}
    BY <1>1 DEF BuilderReceives
  <2> QED
    BY <1>1, <2>1, <2>2 DEF BuilderReceives, TypeOK
<1>2. CASE CreatePod
  <2>1. pb \in Building
    BY <1>2, HandlerTypes DEF CreatePod, BuilderAt, Idle
  <2> QED
    BY <1>2, <2>1 DEF CreatePod, TypeOK
<1>3. CASE CreatePodConflict
  <2>1. PICK o \in BOOLEAN : Redeliver(FALSE, o)
    BY <1>3 DEF CreatePodConflict, PodBuilderRaises
  <2> QED
    BY <1>3, <2>1, StopType DEF CreatePodConflict, PodBuilderRaises, TypeOK
<1>4. CASE PodStarts
  <2>1. pb \in Building
    BY <1>4, HandlerTypes DEF PodStarts, BuilderAt, Idle
  <2> QED
    BY <1>4, <2>1 DEF PodStarts, TypeOK
<1>5. CASE SetPodReady
  <2>1. pb \in Building
    BY <1>5, HandlerTypes DEF SetPodReady, BuilderAt, Idle
  <2> QED
    BY <1>5, <2>1 DEF SetPodReady, TypeOK
<1>6. CASE PublishPodReady
  <2>1. pb \in Building
    BY <1>6, HandlerTypes DEF PublishPodReady, BuilderAt, Idle
  <2>2. schedule' \in [Bots -> Nat]
    BY <1>6, <2>1, BagFacts DEF PublishPodReady, TypeOK
  <2> QED
    BY <1>6, <2>1, <2>2 DEF PublishPodReady, TypeOK
<1>7. CASE BuilderAcks
  BY <1>7 DEF BuilderAcks, TypeOK
<1> QED
  BY <1>1, <1>2, <1>3, <1>4, <1>5, <1>6, <1>7 DEF BuilderStep

\* Publishing a pairing keeps the types of what it changes.
LEMMA PublishMatchType ==
  ASSUME TypeOK, NEW x \in Bots, NEW o \in Bots, PublishMatch(x, o)
  PROVE  ondeck' \in [Pairs -> Nat] /\ published' \in [Pairs -> Nat]
<1>1. <<x, o>> \in Pairs
  BY DEF Pairs
<1> QED
  BY <1>1, BagFacts DEF TypeOK, PublishMatch

\* A step of match_scheduler keeps the types.
LEMMA SchedulerType == TypeOK /\ SchedulerStep => TypeOK'
<1> SUFFICES ASSUME TypeOK, SchedulerStep PROVE TypeOK'
  OBVIOUS
<1> USE DEF broker, history
<1>1. ASSUME NEW b \in Bots, SchedulerReceives(b) PROVE TypeOK'
  <2>1. schedule' \in [Bots -> Nat]
    BY <1>1, BagFacts DEF SchedulerReceives, TypeOK
  <2>2. sc' \in Publishing \cup {ScIdle}
    BY <1>1 DEF SchedulerReceives
  <2> QED
    BY <1>1, <2>1, <2>2 DEF SchedulerReceives, TypeOK
<1>2. CASE ReadReadyBots
  <2>1. sc \in Publishing
    BY <1>2, HandlerTypes DEF ReadReadyBots, SchedulerAt, Idle
  <2> QED
    BY <1>2, <2>1 DEF ReadReadyBots, TypeOK
<1>3. ASSUME NEW b \in Bots, EnqueueAsX(b) PROVE TypeOK'
  <2>1. sc \in Publishing
    BY <1>3, HandlerTypes DEF EnqueueAsX, SchedulerAt, Idle
  <2>2. sc' \in Publishing
    BY <1>3, <2>1 DEF EnqueueAsX
  <2>3. PublishMatch(sc.bot, b)
    BY <1>3 DEF EnqueueAsX
  <2>4. ondeck' \in [Pairs -> Nat] /\ published' \in [Pairs -> Nat]
    BY <2>1, <2>3, PublishMatchType
  <2> QED
    BY <2>2, <2>3, <2>4 DEF PublishMatch, TypeOK
<1>4. CASE EnqueueAsO
  <2>1. sc \in Publishing
    BY <1>4, HandlerTypes DEF EnqueueAsO, SchedulerAt, Idle
  <2>2. sc' \in Publishing
    BY <1>4, <2>1 DEF EnqueueAsO
  <2>3. PublishMatch(sc.mirror, sc.bot) /\ sc.mirror \in Bots
    BY <1>4, <2>1 DEF EnqueueAsO
  <2>4. ondeck' \in [Pairs -> Nat] /\ published' \in [Pairs -> Nat]
    BY <2>1, <2>3, PublishMatchType
  <2> QED
    BY <2>2, <2>3, <2>4 DEF PublishMatch, TypeOK
<1>5. CASE SchedulerAcks
  <2>1. sc.bot \in Bots
    BY <1>5, HandlerTypes DEF SchedulerAcks, SchedulerAt, Idle
  <2> QED
    BY <1>5, <2>1 DEF SchedulerAcks, TypeOK
<1> QED
  BY <1>1, <1>2, <1>3, <1>4, <1>5 DEF SchedulerStep

\* A step of ondeck_handler keeps the types.
LEMMA OndeckType == TypeOK /\ OndeckStep => TypeOK'
<1> SUFFICES ASSUME TypeOK, OndeckStep PROVE TypeOK'
  OBVIOUS
<1> USE DEF broker, history
<1>1. ASSUME NEW p \in Pairs, OndeckReceives(p) PROVE TypeOK'
  <2>1. ondeck' \in [Pairs -> Nat]
    BY <1>1, BagFacts DEF OndeckReceives, TypeOK
  <2>2. od' \in Playing \cup {OdIdle}
    BY <1>1 DEF OndeckReceives
  <2> QED
    BY <1>1, <2>1, <2>2 DEF OndeckReceives, TypeOK
<1>2. CASE PlayMatch
  <2>1. od \in Playing
    BY <1>2, HandlerTypes DEF PlayMatch, OndeckAt, Idle
  <2> QED
    BY <1>2, <2>1 DEF PlayMatch, TypeOK
<1>3. CASE PlayWithoutPod
  <2>1. PICK p \in BOOLEAN : Redeliver(p, FALSE)
    BY <1>3 DEF PlayWithoutPod, OndeckHandlerRaises
  <2>2. podless' \in Nat
    BY <1>3 DEF PlayWithoutPod, TypeOK
  <2> QED
    BY <1>3, <2>1, <2>2, StopType DEF PlayWithoutPod, OndeckHandlerRaises, TypeOK
<1>4. CASE RecordMatch
  <2>1. od \in Playing
    BY <1>4, HandlerTypes DEF RecordMatch, OndeckAt, Idle
  <2>2. recorded' \in [Pairs -> Nat]
    BY <1>4, <2>1, BagFacts DEF RecordMatch, TypeOK
  <2> QED
    BY <1>4, <2>1, <2>2 DEF RecordMatch, TypeOK
<1>5. CASE OndeckAcks
  BY <1>5 DEF OndeckAcks, TypeOK
<1> QED
  BY <1>1, <1>2, <1>3, <1>4, <1>5 DEF OndeckStep

\* A fault keeps the types.
LEMMA FaultStepType == TypeOK /\ FaultStep => TypeOK'
<1> SUFFICES ASSUME TypeOK, FaultStep PROVE TypeOK'
  OBVIOUS
<1> USE DEF broker, history
<1>0. faults \in 0 .. MaxFaults
  BY DEF TypeOK
<1>1. ASSUME NEW b \in Bots, EnqueueFails(b) PROVE TypeOK'
  BY <1>0, <1>1, FaultType DEF EnqueueFails, TypeOK
<1>2. ASSUME NEW b \in Bots, PodLost(b) PROVE TypeOK'
  <2>1. faults' \in 0 .. MaxFaults
    BY <1>0, <1>2, FaultType DEF PodLost
  <2> QED
    BY <1>2, <2>1 DEF PodLost, TypeOK
<1>3. CASE KillDispatcher
  <2>1. faults' \in 0 .. MaxFaults
    BY <1>0, <1>3, FaultType DEF KillDispatcher
  <2> QED
    BY <1>3, <2>1, StopType DEF KillDispatcher, TypeOK
<1>4. CASE KillScheduler
  <2>1. faults' \in 0 .. MaxFaults
    BY <1>0, <1>4, FaultType DEF KillScheduler
  <2>2. sc.held => sc.bot \in Bots
    BY HandlerTypes
  <2>3. schedule' \in [Bots -> Nat]
    BY <1>4, <2>2, BagFacts DEF KillScheduler, TypeOK
  <2> QED
    BY <1>4, <2>1, <2>3 DEF KillScheduler, SchedulerStops, TypeOK
<1>5. CASE PodDoesNotStart
  <2>1. faults' \in 0 .. MaxFaults
    BY <1>0, <1>5, FaultType DEF PodDoesNotStart
  <2>2. pods' \in [Bots -> PodStates]
    BY <1>5 DEF PodDoesNotStart, TypeOK
  <2>3. PICK o \in BOOLEAN : Redeliver(FALSE, o)
    BY <1>5 DEF PodDoesNotStart, PodBuilderRaises
  <2> QED
    BY <1>5, <2>1, <2>2, <2>3, StopType DEF PodDoesNotStart, PodBuilderRaises, TypeOK
<1>6. CASE BuilderErrs
  <2>1. faults' \in 0 .. MaxFaults
    BY <1>0, <1>6, FaultType DEF BuilderErrs
  <2>2. PICK o \in BOOLEAN : Redeliver(FALSE, o)
    BY <1>6 DEF BuilderErrs, PodBuilderRaises
  <2> QED
    BY <1>6, <2>1, <2>2, StopType DEF BuilderErrs, PodBuilderRaises, TypeOK
<1>7. CASE SchedulerErrs
  BY <1>0, <1>7, FaultType DEF SchedulerErrs, SchedulerStops, TypeOK
<1>8. CASE OndeckErrs
  <2>1. faults' \in 0 .. MaxFaults
    BY <1>0, <1>8, FaultType DEF OndeckErrs
  <2>2. PICK p \in BOOLEAN : Redeliver(p, FALSE)
    BY <1>8 DEF OndeckErrs, OndeckHandlerRaises
  <2> QED
    BY <1>8, <2>1, <2>2, StopType DEF OndeckErrs, OndeckHandlerRaises, TypeOK
<1> QED
  BY <1>1, <1>2, <1>3, <1>4, <1>5, <1>6, <1>7, <1>8 DEF FaultStep

\* A channel is closed once more, within the bound.
LEMMA ClosingType ==
  ASSUME TypeOK, NEW c \in Publishers, Closing(c)
  PROVE  closings' \in [Publishers -> 0 .. MaxClosings]
<1>1. /\ closings["pod_builder"] \in Nat /\ closings["match_scheduler"] \in Nat
      /\ closings["pod_builder"] + closings["match_scheduler"] < MaxClosings
  BY DEF TypeOK, Closing, Publishers
<1>2. closings[c] + 1 \in 0 .. MaxClosings
  BY <1>1, ClosingsAssumption DEF Publishers
<1> QED
  BY <1>2 DEF TypeOK, Closing

\* A probe that closes a channel, and what a handler then raises, keep the types.
LEMMA ProbeType == TypeOK /\ ProbeStep => TypeOK'
<1> SUFFICES ASSUME TypeOK, ProbeStep PROVE TypeOK'
  OBVIOUS
<1> USE DEF broker, history
<1>1. CASE BuilderChannelCloses
  <2>1. pb \in Building
    BY <1>1, HandlerTypes DEF BuilderChannelCloses
  <2>2. closings' \in [Publishers -> 0 .. MaxClosings]
    BY <1>1, ClosingType DEF BuilderChannelCloses, Publishers
  <2>3. build' \in [Bots -> Nat]
    BY <1>1, <2>1, BagFacts DEF BuilderChannelCloses, TypeOK
  <2> QED
    BY <1>1, <2>1, <2>2, <2>3 DEF BuilderChannelCloses, TypeOK
<1>2. CASE SchedulerChannelCloses
  <2>1. sc \in Publishing
    BY <1>2, HandlerTypes DEF SchedulerChannelCloses
  <2>2. closings' \in [Publishers -> 0 .. MaxClosings]
    BY <1>2, ClosingType DEF SchedulerChannelCloses, Publishers
  <2>3. schedule' \in [Bots -> Nat]
    BY <1>2, <2>1, BagFacts DEF SchedulerChannelCloses, TypeOK
  <2>4. sc' \in Publishing
    BY <1>2, <2>1 DEF SchedulerChannelCloses
  <2> QED
    BY <1>2, <2>2, <2>3, <2>4 DEF SchedulerChannelCloses, TypeOK
<1>3. CASE StaleBuilderRaises
  <2>1. PICK o \in BOOLEAN : Redeliver(FALSE, o)
    BY <1>3 DEF StaleBuilderRaises, PodBuilderRaises
  <2> QED
    BY <1>3, <2>1, StopType DEF StaleBuilderRaises, PodBuilderRaises, TypeOK
<1>4. CASE StaleSchedulerRaises
  BY <1>4 DEF StaleSchedulerRaises, SchedulerStops, TypeOK
<1> QED
  BY <1>1, <1>2, <1>3, <1>4 DEF ProbeStep

\* Every step keeps the types.
LEMMA TypeStep == TypeOK /\ [Next]_vars => TypeOK'
<1> SUFFICES ASSUME TypeOK, [Next]_vars PROVE TypeOK'
  OBVIOUS
<1> USE DEF broker, history
<1>1. ASSUME NEW b \in Bots, Upload(b) PROVE TypeOK'
  BY <1>1 DEF Upload, TypeOK
<1>2. ASSUME NEW c \in Consumers, Start(c) PROVE TypeOK'
  <2>1. declared' \subseteq Queues
    BY <1>2 DEF Start, TypeOK, Consumers, Queues
  <2> QED
    BY <1>2, <2>1 DEF Start, TypeOK
<1>3. CASE WebStep
  <2>1. PICK b \in Bots : EnqueueBuildPod(b)
    BY <1>3 DEF WebStep
  <2>2. build' \in [Bots -> Nat]
    BY <2>1, BagFacts DEF EnqueueBuildPod, TypeOK
  <2> QED
    BY <2>1, <2>2 DEF EnqueueBuildPod, TypeOK, Queues
<1>4. CASE UNCHANGED vars
  BY <1>4 DEF vars, TypeOK
<1> QED
  BY <1>1, <1>2, <1>3, <1>4, BuilderType, SchedulerType, OndeckType, FaultStepType,
    ProbeType
  DEF Next

\* The variables keep their types, for any number of bots and of faults.
THEOREM TypeCorrect == Spec => []TypeOK
<1>1. Init => TypeOK
  BY FaultsAssumption, ClosingsAssumption, DeclaredAssumption
  DEF Init, TypeOK, PbIdle, ScIdle, OdIdle
<1> QED
  BY <1>1, TypeStep, PTL DEF Spec
-----------------------------------------------------------------------------
(* Whatever is announced, scheduled or published concerns ready bots only. *)

Answered(b) == pods[b] \in {"running", "dead", "no_ip"}

ReadyInv ==
  /\ \A b \in ready : Answered(b)
  /\ pb.step = "set_ready" => Answered(pb.bot)
  /\ pb.step = "publish" => pb.bot \in ready
  /\ \A b \in Bots : schedule[b] > 0 => b \in ready

AnnouncedInv ==
  /\ ~Idle(sc) => /\ sc.bot \in ready
                  /\ sc.others \subseteq ready
                  /\ sc.mirror \in ready \cup {NoBot}
  /\ \A a, b \in Bots : published[<<a, b>>] > 0 => a \in ready /\ b \in ready
  /\ handled \subseteq ready

\* A scheduler that publishes the pairings of a bot: each handled bot, and the
\* bot itself, is still to come or has been put on deck in the first role,
\* and in the second unless that is the very next step.
ProgressInv ==
  sc.step = "publish" =>
    \A o \in handled \cup {sc.bot} :
      \/ o \in sc.others
      \/ /\ published[<<sc.bot, o>>] > 0
         /\ published[<<o, sc.bot>>] > 0 \/ sc.mirror = o

IInv == TypeOK /\ ReadyInv /\ AnnouncedInv /\ ProgressInv /\ PairsCovered

\* A step beside match_scheduler: it publishes no pairing and marks no bot
\* handled, leaves the scheduler's handler at its work or ends it, and no bot's
\* row loses its pod.
Aside ==
  /\ ready \subseteq ready'
  /\ published' = published /\ handled' = handled
  /\ sc' = ScIdle \/ UNCHANGED <<sc.step, sc.bot, sc.others, sc.mirror>>

\* Every step that is not match_scheduler's is one beside it.
LEMMA AsideStep ==
  ASSUME TypeOK, [Next]_vars, ~SchedulerStep
  PROVE  Aside
<1> USE DEF Aside, broker, history
<1>1. CASE BuilderStep
  BY <1>1 DEF BuilderStep, BuilderReceives, CreatePod, CreatePodConflict, PodStarts,
    SetPodReady, PublishPodReady, BuilderAcks, PodBuilderRaises, DispatcherStops
<1>2. CASE OndeckStep
  BY <1>2 DEF OndeckStep, OndeckReceives, PlayMatch, PlayWithoutPod, RecordMatch,
    OndeckAcks, OndeckHandlerRaises, DispatcherStops
<1>3. CASE FaultStep
  BY <1>3 DEF FaultStep, EnqueueFails, PodLost, KillDispatcher, KillScheduler,
    PodDoesNotStart, BuilderErrs, SchedulerErrs, OndeckErrs, PodBuilderRaises,
    OndeckHandlerRaises, DispatcherStops, SchedulerStops
<1>4. ASSUME NEW b \in Bots, Upload(b) PROVE Aside
  BY <1>4 DEF Upload
<1>5. ASSUME NEW c \in Consumers, Start(c) PROVE Aside
  BY <1>5 DEF Start
<1>6. CASE WebStep
  BY <1>6 DEF WebStep, EnqueueBuildPod
<1>7. CASE UNCHANGED vars
  BY <1>7 DEF vars
<1>8. CASE ProbeStep
  <2>1. CASE SchedulerChannelCloses
    BY <2>1, HandlerTypes DEF SchedulerChannelCloses
  <2> QED
    BY <1>8, <2>1 DEF ProbeStep, BuilderChannelCloses, StaleBuilderRaises,
      StaleSchedulerRaises, PodBuilderRaises, DispatcherStops, SchedulerStops
<1> QED
  BY <1>1, <1>2, <1>3, <1>4, <1>5, <1>6, <1>7, <1>8 DEF Next

\* The pod of a ready bot has answered, and only ready bots are announced.
LEMMA ReadyStep ==
  TypeOK /\ ReadyInv /\ AnnouncedInv /\ [Next]_vars => ReadyInv'
<1> SUFFICES ASSUME TypeOK, ReadyInv, AnnouncedInv, [Next]_vars PROVE ReadyInv'
  OBVIOUS
<1> USE DEF broker, history
\* Most steps touch nothing that ReadyInv is about.
<1>1. ASSUME UNCHANGED <<ready, pods, pb.step, pb.bot>>,
             \A b \in Bots : schedule'[b] > 0 => schedule[b] > 0
      PROVE  ReadyInv'
  BY <1>1 DEF ReadyInv, Answered
\* The dispatcher stops and at most the pod that was being built dies.
<1>2. ASSUME DispatcherStops, pods' = pods \/ pods' = [pods EXCEPT ![pb.bot] = "dead"]
      PROVE  ReadyInv'
  BY <1>2 DEF DispatcherStops, ReadyInv, Answered, PbIdle, TypeOK
<1>3. CASE BuilderStep
  <2>1. ASSUME NEW b \in Bots, BuilderReceives(b) PROVE ReadyInv'
    BY <2>1 DEF BuilderReceives, ReadyInv, Answered, PbIdle
  <2>2. CASE CreatePod
    <3>1. pb \in Building
      BY <2>2, HandlerTypes DEF CreatePod, BuilderAt, Idle
    <3> QED
      BY <2>2, <3>1 DEF CreatePod, ReadyInv, Answered, TypeOK
  <2>3. CASE CreatePodConflict
    BY <2>3, <1>2 DEF CreatePodConflict, PodBuilderRaises
  <2>4. CASE PodStarts
    <3>1. pb \in Building
      BY <2>4, HandlerTypes DEF PodStarts, BuilderAt, Idle
    <3> QED
      BY <2>4, <3>1 DEF PodStarts, ReadyInv, Answered, TypeOK
  <2>5. CASE SetPodReady
    <3>1. pb \in Building
      BY <2>5, HandlerTypes DEF SetPodReady, BuilderAt, Idle
    <3> QED
      BY <2>5, <3>1 DEF SetPodReady, BuilderAt, ReadyInv, Answered, TypeOK
  <2>6. CASE PublishPodReady
    <3>1. pb \in Building
      BY <2>6, HandlerTypes DEF PublishPodReady, BuilderAt, Idle
    <3> QED
      BY <2>6, <3>1 DEF PublishPodReady, BuilderAt, Publish, ReadyInv, Answered, TypeOK
  <2>7. CASE BuilderAcks
    BY <2>7 DEF BuilderAcks, ReadyInv, Answered, PbIdle
  <2> QED
    BY <1>3, <2>1, <2>2, <2>3, <2>4, <2>5, <2>6, <2>7 DEF BuilderStep
<1>4. CASE SchedulerStep
  <2>1. ASSUME NEW b \in Bots, SchedulerReceives(b) PROVE ReadyInv'
    BY <2>1, <1>1 DEF SchedulerReceives, Take, TypeOK
  <2>2. ASSUME NEW b \in Bots, EnqueueAsX(b) PROVE ReadyInv'
    BY <2>2, <1>1 DEF EnqueueAsX, PublishMatch
  <2>3. CASE EnqueueAsO
    BY <2>3, <1>1 DEF EnqueueAsO, PublishMatch
  <2> QED
    BY <1>4, <2>1, <2>2, <2>3, <1>1 DEF SchedulerStep, ReadReadyBots, SchedulerAcks
<1>5. CASE OndeckStep
  <2>1. CASE PlayWithoutPod
    BY <2>1, <1>2 DEF PlayWithoutPod, OndeckHandlerRaises
  <2> QED
    BY <1>5, <2>1, <1>1
    DEF OndeckStep, OndeckReceives, PlayMatch, RecordMatch, OndeckAcks
<1>6. CASE FaultStep
  <2>1. ASSUME NEW b \in Bots, EnqueueFails(b) PROVE ReadyInv'
    BY <2>1, <1>1 DEF EnqueueFails
  <2>2. ASSUME NEW b \in Bots, PodLost(b) PROVE ReadyInv'
    BY <2>2 DEF PodLost, ReadyInv, Answered, TypeOK
  <2>3. CASE KillScheduler
    <3>1. sc.held => sc.bot \in Bots /\ sc.bot \in ready
      BY HandlerTypes DEF AnnouncedInv, Idle
    <3> QED
      BY <2>3, <3>1 DEF KillScheduler, SchedulerStops, ReadyInv, Answered, TypeOK
  <2>4. CASE SchedulerErrs
    BY <2>4, <1>1 DEF SchedulerErrs, SchedulerStops
  <2>5. CASE KillDispatcher \/ PodDoesNotStart \/ BuilderErrs \/ OndeckErrs
    BY <2>5, <1>2 DEF KillDispatcher, PodDoesNotStart, BuilderErrs, OndeckErrs,
      PodBuilderRaises, OndeckHandlerRaises
  <2> QED
    BY <1>6, <2>1, <2>2, <2>3, <2>4, <2>5 DEF FaultStep
<1>7. ASSUME NEW b \in Bots, Upload(b) PROVE ReadyInv'
  BY <1>7, <1>1 DEF Upload
<1>8. ASSUME NEW c \in Consumers, Start(c) PROVE ReadyInv'
  BY <1>8, <1>1 DEF Start
<1>9. CASE WebStep
  BY <1>9, <1>1 DEF WebStep, EnqueueBuildPod
<1>10. CASE UNCHANGED vars
  BY <1>10, <1>1 DEF vars
<1>11. CASE ProbeStep
  <2>1. CASE BuilderChannelCloses
    BY <2>1, <1>1, HandlerTypes DEF BuilderChannelCloses
  <2>2. CASE SchedulerChannelCloses
    <3>1. sc.bot \in Bots /\ sc.bot \in ready
      BY <2>2, HandlerTypes DEF SchedulerChannelCloses, AnnouncedInv, Idle
    <3> QED
      BY <2>2, <3>1 DEF SchedulerChannelCloses, ReadyInv, Answered, TypeOK
  <2>3. CASE StaleBuilderRaises
    BY <2>3, <1>2 DEF StaleBuilderRaises, PodBuilderRaises
  <2>4. CASE StaleSchedulerRaises
    BY <2>4, <1>1 DEF StaleSchedulerRaises, SchedulerStops
  <2> QED
    BY <1>11, <2>1, <2>2, <2>3, <2>4 DEF ProbeStep
<1> QED
  BY <1>3, <1>4, <1>5, <1>6, <1>7, <1>8, <1>9, <1>10, <1>11 DEF Next

\* What the scheduler works on, has published and has handled is ready.
LEMMA AnnouncedStep ==
  TypeOK /\ ReadyInv /\ AnnouncedInv /\ [Next]_vars => AnnouncedInv'
<1> SUFFICES ASSUME TypeOK, ReadyInv, AnnouncedInv, [Next]_vars PROVE AnnouncedInv'
  OBVIOUS
<1> USE DEF broker, history
<1>1. CASE ~SchedulerStep
  <2>1. Aside
    BY <1>1, AsideStep
  <2> QED
    BY <2>1 DEF Aside, AnnouncedInv, Idle, ScIdle
<1>2. ASSUME NEW b \in Bots, SchedulerReceives(b) PROVE AnnouncedInv'
  BY <1>2 DEF SchedulerReceives, ReadyInv, AnnouncedInv
<1>3. CASE ReadReadyBots
  <2>1. sc \in Publishing /\ ~Idle(sc)
    BY <1>3, HandlerTypes DEF ReadReadyBots, SchedulerAt, Idle
  <2> QED
    BY <1>3, <2>1 DEF ReadReadyBots, AnnouncedInv
<1>4. ASSUME NEW x \in ready, NEW o \in ready, PublishMatch(x, o),
             sc'.bot \in ready, sc'.others \subseteq ready,
             sc'.mirror \in ready \cup {NoBot}
      PROVE  AnnouncedInv'
  <2>1. \A a, b \in Bots : published'[<<a, b>>] > 0 =>
           published[<<a, b>>] > 0 \/ (a = x /\ b = o)
    BY <1>4 DEF PublishMatch, TypeOK, Pairs
  <2> QED
    BY <1>4, <2>1 DEF PublishMatch, AnnouncedInv
<1>5. ASSUME NEW b \in Bots, EnqueueAsX(b) PROVE AnnouncedInv'
  <2>1. sc \in Publishing /\ ~Idle(sc)
    BY <1>5, HandlerTypes DEF EnqueueAsX, SchedulerAt, Idle
  <2>2. sc.bot \in ready /\ b \in ready
    BY <1>5, <2>1 DEF EnqueueAsX, AnnouncedInv
  <2>3. sc'.bot \in ready /\ sc'.others \subseteq ready /\ sc'.mirror \in ready \cup {NoBot}
    BY <1>5, <2>1, <2>2 DEF EnqueueAsX, AnnouncedInv
  <2> QED
    BY <1>4, <1>5, <2>2, <2>3 DEF EnqueueAsX
<1>6. CASE EnqueueAsO
  <2>1. sc \in Publishing /\ ~Idle(sc)
    BY <1>6, HandlerTypes DEF EnqueueAsO, SchedulerAt, Idle
  <2>2. sc.bot \in ready /\ sc.mirror \in ready
    BY <1>6, <2>1 DEF EnqueueAsO, AnnouncedInv
  <2>3. sc'.bot \in ready /\ sc'.others \subseteq ready /\ sc'.mirror \in ready \cup {NoBot}
    BY <1>6, <2>1, <2>2 DEF EnqueueAsO, AnnouncedInv
  <2> QED
    BY <1>4, <1>6, <2>2, <2>3 DEF EnqueueAsO
<1>7. CASE SchedulerAcks
  BY <1>7 DEF SchedulerAcks, SchedulerAt, AnnouncedInv, Idle, ScIdle
<1> QED
  BY <1>1, <1>2, <1>3, <1>5, <1>6, <1>7 DEF SchedulerStep

\* Handled bots stay covered, and the handler's progress is kept.
LEMMA CoverStep == IInv /\ [Next]_vars => ProgressInv' /\ PairsCovered'
<1> SUFFICES ASSUME IInv, [Next]_vars PROVE ProgressInv' /\ PairsCovered'
  OBVIOUS
<1> USE DEF IInv, broker, history
<1>0. handled \subseteq Bots /\ published \in [Pairs -> Nat]
  BY DEF TypeOK
<1>1. CASE ~SchedulerStep
  <2>1. Aside
    BY <1>1, AsideStep
  <2> QED
    BY <2>1 DEF Aside, ProgressInv, PairsCovered, ScIdle
<1>2. ASSUME NEW b \in Bots, SchedulerReceives(b) PROVE ProgressInv' /\ PairsCovered'
  BY <1>2 DEF SchedulerReceives, ProgressInv, PairsCovered
<1>3. CASE ReadReadyBots
  <2>1. sc \in Publishing /\ ~Idle(sc)
    BY <1>3, HandlerTypes DEF ReadReadyBots, SchedulerAt, Idle
  <2>2. sc'.others = ready /\ sc'.bot = sc.bot
    BY <1>3, <2>1 DEF ReadReadyBots
  <2> QED
    BY <1>3, <2>1, <2>2 DEF ReadReadyBots, AnnouncedInv, ProgressInv, PairsCovered
\* Publishing a pairing covers it and uncovers none.
<1>4. ASSUME NEW x \in Bots, NEW o \in Bots, PublishMatch(x, o)
      PROVE  /\ published'[<<x, o>>] > 0
             /\ \A a, b \in Bots : published[<<a, b>>] > 0 => published'[<<a, b>>] > 0
             /\ PairsCovered'
  <2>1. <<x, o>> \in Pairs /\ \A a, b \in Bots : <<a, b>> \in Pairs
    BY DEF Pairs
  <2>2. published'[<<x, o>>] > 0
    BY <1>0, <1>4, <2>1 DEF PublishMatch
  <2>3. \A a, b \in Bots : published[<<a, b>>] > 0 => published'[<<a, b>>] > 0
    BY <1>0, <1>4, <2>1 DEF PublishMatch
  <2> QED
    BY <1>0, <1>4, <2>2, <2>3 DEF PublishMatch, PairsCovered
<1>5. ASSUME NEW b \in Bots, EnqueueAsX(b) PROVE ProgressInv' /\ PairsCovered'
  <2>1. sc \in Publishing
    BY <1>5, HandlerTypes DEF EnqueueAsX, SchedulerAt, Idle
  <2>2. /\ sc'.bot = sc.bot /\ sc'.others = sc.others \ {b}
        /\ sc'.mirror = IF b # sc.bot THEN b ELSE NoBot
        /\ sc.step = "publish" /\ sc.mirror = NoBot
    BY <1>5, <2>1 DEF EnqueueAsX, SchedulerAt
  <2>3. PublishMatch(sc.bot, b) /\ handled' = handled
    BY <1>5 DEF EnqueueAsX, PublishMatch
  <2>4. ASSUME NEW o \in handled \cup {sc.bot}, o \notin sc'.others
        PROVE  /\ published'[<<sc.bot, o>>] > 0
               /\ published'[<<o, sc.bot>>] > 0 \/ sc'.mirror = o
    <3>0. o \in Bots /\ sc.bot \in Bots
      BY <1>0, <2>1
    <3>1. CASE o = b
      BY <1>4, <2>1, <2>2, <2>3, <3>1
    <3>2. CASE o # b
      <4>1. published[<<sc.bot, o>>] > 0 /\ published[<<o, sc.bot>>] > 0
        BY <2>2, <2>4, <3>0, <3>2, BotsAssumption DEF ProgressInv
      <4> QED
        BY <1>4, <2>3, <3>0, <4>1
    <3> QED
      BY <3>1, <3>2
  <2>5. ProgressInv'
    BY <2>2, <2>3, <2>4 DEF ProgressInv
  <2> QED
    BY <1>4, <2>1, <2>3, <2>5
<1>6. CASE EnqueueAsO
  <2>1. sc \in Publishing
    BY <1>6, HandlerTypes DEF EnqueueAsO, SchedulerAt, Idle
  <2>2. /\ sc'.bot = sc.bot /\ sc'.others = sc.others
        /\ sc.step = "publish" /\ sc.mirror \in Bots
    BY <1>6, <2>1 DEF EnqueueAsO, SchedulerAt
  <2>3. PublishMatch(sc.mirror, sc.bot) /\ handled' = handled
    BY <1>6 DEF EnqueueAsO, PublishMatch
  <2>4. ASSUME NEW o \in handled \cup {sc.bot}, o \notin sc.others
        PROVE  published'[<<sc.bot, o>>] > 0 /\ published'[<<o, sc.bot>>] > 0
    <3>0. o \in Bots /\ sc.bot \in Bots
      BY <1>0, <2>1
    <3>1. /\ published[<<sc.bot, o>>] > 0
          /\ published[<<o, sc.bot>>] > 0 \/ sc.mirror = o
      BY <2>2, <2>4 DEF ProgressInv
    <3> QED
      BY <1>4, <2>2, <2>3, <3>0, <3>1
  <2>5. ProgressInv'
    BY <2>2, <2>3, <2>4 DEF ProgressInv
  <2> QED
    BY <1>4, <2>1, <2>2, <2>3, <2>5
<1>7. CASE SchedulerAcks
  <2>1. sc.bot \in Bots
    BY <1>7, HandlerTypes DEF SchedulerAcks, SchedulerAt, Idle
  <2>2. \A o \in handled \cup {sc.bot} :
           published[<<sc.bot, o>>] > 0 /\ published[<<o, sc.bot>>] > 0
    BY <1>0, <1>7, <2>1, BotsAssumption DEF SchedulerAcks, SchedulerAt, ProgressInv
  <2>3. published' = published /\ handled' = handled \cup {sc.bot} /\ sc' = ScIdle
    BY <1>7 DEF SchedulerAcks
  <2> QED
    BY <2>2, <2>3 DEF ProgressInv, PairsCovered, ScIdle
<1> QED
  BY <1>1, <1>2, <1>3, <1>5, <1>6, <1>7 DEF SchedulerStep

\* The inductive invariant holds, whatever crashes and whatever is redelivered.
THEOREM Invariance == Spec => []IInv
<1>1. Init => IInv
  BY FaultsAssumption, ClosingsAssumption, DeclaredAssumption
  DEF Init, IInv, TypeOK, ReadyInv, AnnouncedInv, ProgressInv, PairsCovered, Answered,
    PbIdle, ScIdle, OdIdle, Idle, Pairs
<1>2. IInv /\ [Next]_vars => IInv'
  BY TypeStep, ReadyStep, AnnouncedStep, CoverStep DEF IInv
<1> QED
  BY <1>1, <1>2, PTL DEF Spec

\* Any two bots whose announcement match_scheduler has acknowledged have been
\* put on deck in both roles.
THEOREM PairsCoveredCorrect == Spec => []PairsCovered
<1>1. IInv => PairsCovered
  BY DEF IInv
<1> QED
  BY <1>1, Invariance, PTL

\* Only bots whose pod has answered are announced, or put on deck.
THEOREM OnlyReadyBotsCorrect == Spec => []OnlyReadyBots
<1>1. IInv => OnlyReadyBots
  BY DEF IInv, ReadyInv, AnnouncedInv, OnlyReadyBots, Answered, Pairs
<1> QED
  BY <1>1, Invariance, PTL

=============================================================================
