------------------------------ MODULE Pipeline ------------------------------
(***************************************************************************)
(* The way of a bot from its upload to the matches it plays:               *)
(*                                                                         *)
(*   web --matches.build--> pod_builder --matches.schedule-->              *)
(*     match_scheduler --matches.ondeck--> ondeck_handler --> Postgres     *)
(*                                                                         *)
(* pod_builder and ondeck_handler are two consumers in one process, the    *)
(* dispatcher: an exception in either ends both.  Each consumer handles    *)
(* one message at a time and acknowledges it when the handler returns      *)
(* (`async with message.process()`).  A handler that raises rejects its    *)
(* message without requeueing it and the process ends; when a process is   *)
(* killed the broker delivers its message again.                           *)
(*                                                                         *)
(* A readiness probe makes pod_builder and match_scheduler look for the    *)
(* queue they publish to, on the channel that their work arrives on        *)
(* (module Health).  While nobody has declared it the broker closes the    *)
(* channel: the message in work is delivered again, and its handler goes   *)
(* on without it.                                                          *)
(*                                                                         *)
(* A queue is the bag of its messages: no property here depends on their   *)
(* order.  A message published to a queue that nobody has declared yet is  *)
(* dropped by the broker.  Rows and pods are never deleted here: only      *)
(* scripts/reset_db.py does so.                                            *)
(***************************************************************************)
EXTENDS Integers, FiniteSets

CONSTANTS
  Bots,         \* bot ids
  NoBot,        \* Python's None
  Declared0,    \* queues that an earlier run has left declared
  Faults,       \* which faults may happen: a subset of FaultKinds
  MaxFaults,    \* how many
  MaxClosings   \* how often probes close a consumer's channel

Queues == {"matches.build", "matches.schedule", "matches.ondeck"}

Consumers == {"pod_builder", "ondeck_handler", "match_scheduler"}

\* The consumers whose echo handler looks for the queue of another one.
Publishers == {"pod_builder", "match_scheduler"}

\* "web": enqueueing or the web process fails after the row is committed.
\* "kill_dispatcher", "kill_scheduler": the process is killed.
\* "pod_build": the new pod fails or is not ready in time.
\* "dispatcher_error", "scheduler_error": a handler raises (database, broker
\* or Kubernetes API unavailable, a turn that times out).
\* "pod_lost": a pod ends (restartPolicy Never: nothing restarts it) and keeps
\* its IP, or is evicted and has none.
FaultKinds == {"web", "kill_dispatcher", "kill_scheduler", "pod_build",
               "dispatcher_error", "scheduler_error", "pod_lost"}

ASSUME BotsAssumption == NoBot \notin Bots

ASSUME DeclaredAssumption == Declared0 \subseteq Queues

ASSUME FaultsAssumption == Faults \subseteq FaultKinds /\ MaxFaults \in Nat

ASSUME ClosingsAssumption == MaxClosings \in Nat

Pairs == Bots \X Bots

VARIABLES
  upload,     \* how far the submission of each bot's source has come
  ready,      \* the bots whose row has pod_ready and pod_name set
  pods,       \* the pods of the namespace "bots"
  declared,   \* the queues that exist
  build,      \* matches.build: BuildPodMessages waiting, per bot
  schedule,   \* matches.schedule: PodReadyMessages waiting, per bot
  ondeck,     \* matches.ondeck: MatchOndecks waiting, per pair (x, o)
  up,         \* the consumers that run
  pb,         \* pod_builder's handler
  sc,         \* match_scheduler's handler
  od,         \* ondeck_handler's handler
  recorded,   \* rows of the matches table, per pair
  published,  \* history: MatchOndecks published, per pair
  dropped,    \* history: those that came before matches.ondeck existed, per pair
  handled,    \* history: bots whose PodReadyMessage the scheduler has handled
  stops,      \* history: how often the dispatcher has ended
  podless,    \* history: matches that found a pod without an IP
  closings,   \* history: how often a probe closed the channel of each publisher
  faults      \* faults so far

broker == <<declared, build, schedule, ondeck>>
history == <<published, dropped, handled, stops, podless, closings>>
vars == <<upload, ready, pods, broker, up, pb, sc, od, recorded, history, faults>>

Idle(h) == h.step = "idle"

\* `held`: the broker waits for the handler's ack; it has not put the message
\* back into its queue.
PbIdle == [step |-> "idle", bot |-> NoBot, held |-> FALSE]
OdIdle == [step |-> "idle", pair |-> <<NoBot, NoBot>>]
ScIdle == [step |-> "idle", bot |-> NoBot, others |-> {}, mirror |-> NoBot,
           held |-> FALSE]

PodStates == {"none", "starting", "running", "dead", "no_ip"}

Building == [step : {"create", "wait", "set_ready", "publish", "ack"}, bot : Bots,
             held : BOOLEAN]

Publishing == [step : {"read", "publish"}, bot : Bots, others : SUBSET Bots,
               mirror : Bots \cup {NoBot}, held : BOOLEAN]

Playing == [step : {"play", "record", "ack"}, pair : Pairs]

TypeOK ==
  /\ upload \in [Bots -> {"none", "inserted", "enqueued", "failed"}]
  /\ ready \subseteq Bots
  /\ pods \in [Bots -> PodStates]
  /\ declared \subseteq Queues
  /\ build \in [Bots -> Nat]
  /\ schedule \in [Bots -> Nat]
  /\ ondeck \in [Pairs -> Nat]
  /\ up \subseteq Consumers
  /\ pb \in Building \cup {PbIdle}
  /\ sc \in Publishing \cup {ScIdle}
  /\ od \in Playing \cup {OdIdle}
  /\ recorded \in [Pairs -> Nat]
  /\ published \in [Pairs -> Nat]
  /\ dropped \in [Pairs -> Nat]
  /\ handled \subseteq Bots
  /\ stops \in Nat /\ podless \in Nat
  /\ closings \in [Publishers -> 0 .. MaxClosings]
  /\ faults \in 0 .. MaxFaults

Init ==
  /\ upload = [b \in Bots |-> "none"]
  /\ ready = {}
  /\ pods = [b \in Bots |-> "none"]
  /\ declared = Declared0
  /\ build = [b \in Bots |-> 0]
  /\ schedule = [b \in Bots |-> 0]
  /\ ondeck = [p \in Pairs |-> 0]
  /\ up = {}
  /\ pb = PbIdle
  /\ sc = ScIdle
  /\ od = OdIdle
  /\ recorded = [p \in Pairs |-> 0]
  /\ published = [p \in Pairs |-> 0]
  /\ dropped = [p \in Pairs |-> 0]
  /\ handled = {}
  /\ stops = 0 /\ podless = 0
  /\ closings = [c \in Publishers |-> 0]
  /\ faults = 0

\* The bag after a message for key k is published to a queue: dropped when
\* the queue does not exist.
Publish(queue, bag, k) ==
  IF queue \in declared THEN [bag EXCEPT ![k] = @ + 1] ELSE bag

Take(bag, k) == [bag EXCEPT ![k] = @ - 1]

Fault(kind) ==
  /\ kind \in Faults
  /\ faults < MaxFaults
  /\ faults' = faults + 1
-----------------------------------------------------------------------------
(* web: handle_submission, from the commit of the new row on. *)

Upload(b) ==
  /\ upload[b] = "none"
  /\ upload' = [upload EXCEPT ![b] = "inserted"]
  /\ UNCHANGED <<ready, pods, broker, up, pb, sc, od, recorded, history, faults>>

\* RabbitMQQueue declares matches.build when it connects.
EnqueueBuildPod(b) ==
  /\ upload[b] = "inserted"
  /\ upload' = [upload EXCEPT ![b] = "enqueued"]
  /\ declared' = declared \cup {"matches.build"}
  /\ build' = [build EXCEPT ![b] = @ + 1]
  /\ UNCHANGED <<ready, pods, schedule, ondeck, up, pb, sc, od, recorded,
                 history, faults>>

EnqueueFails(b) ==
  /\ upload[b] = "inserted"
  /\ Fault("web")
  /\ upload' = [upload EXCEPT ![b] = "failed"]
  /\ UNCHANGED <<ready, pods, broker, up, pb, sc, od, recorded, history>>

\* A consumer's run(): it declares the queue it reads, and no other.
Start(consumer) ==
  /\ consumer \notin up
  /\ up' = up \cup {consumer}
  /\ declared' = declared \cup
       {CASE consumer = "pod_builder" -> "matches.build"
          [] consumer = "match_scheduler" -> "matches.schedule"
          [] consumer = "ondeck_handler" -> "matches.ondeck"}
  /\ UNCHANGED <<upload, ready, pods, build, schedule, ondeck, pb, sc, od,
                 recorded, history, faults>>
-----------------------------------------------------------------------------
(* The end of the dispatcher: what becomes of its two messages. *)

\* Faulty variant: without prefetch_count=1 all matches that wait have been
\* delivered to the process, and end with it.
Redeliver_unlimited(pbToo, odToo) ==
  /\ build' = IF pbToo /\ pb.held THEN [build EXCEPT ![pb.bot] = @ + 1] ELSE build
  /\ ondeck' = [p \in Pairs |-> IF odToo THEN ondeck[p] ELSE 0]

\* build and ondeck after the messages of the given handlers are redelivered:
\* one that the broker has put back before stays where it is.
Redeliver(pbToo, odToo) ==
  /\ build' = IF pbToo /\ pb.held THEN [build EXCEPT ![pb.bot] = @ + 1] ELSE build
  /\ ondeck' = IF odToo /\ ~Idle(od) THEN [ondeck EXCEPT ![od.pair] = @ + 1] ELSE ondeck

DispatcherStops ==
  /\ up' = up \ {"pod_builder", "ondeck_handler"}
  /\ pb' = PbIdle
  /\ od' = OdIdle
  /\ stops' = stops + 1
  /\ UNCHANGED <<upload, ready, declared, schedule, sc, recorded, published,
                 dropped, handled, closings>>

\* pod_builder's handler raises: its message is gone.  The other handler is
\* cancelled, which rejects its message too, unless the connection closes first.
PodBuilderRaises ==
  /\ \E redelivered \in BOOLEAN : Redeliver(FALSE, redelivered)
  /\ DispatcherStops
  /\ UNCHANGED podless

OndeckHandlerRaises ==
  /\ \E redelivered \in BOOLEAN : Redeliver(redelivered, FALSE)
  /\ DispatcherStops

KillDispatcher ==
  /\ up \cap {"pod_builder", "ondeck_handler"} # {}
  /\ Fault("kill_dispatcher")
  /\ Redeliver(TRUE, TRUE)
  /\ DispatcherStops
  /\ UNCHANGED <<pods, podless>>
-----------------------------------------------------------------------------
(* pod_builder: handle_build_pod_message. *)

BuilderAt(step) == "pod_builder" \in up /\ pb.step = step

\* Faulty variant: no message is waiting.
BuilderReceives_none(b) ==
  /\ BuilderAt("idle")
  /\ upload[b] # "none"
  /\ build' = Take(build, b)
  /\ pb' = [step |-> "create", bot |-> b, held |-> TRUE]
  /\ UNCHANGED <<upload, ready, pods, declared, schedule, ondeck, up, sc, od,
                 recorded, history, faults>>

\* Receive a message and look the bot up; without a row the message is acked.
BuilderReceives(b) ==
  /\ BuilderAt("idle")
  /\ build[b] > 0
  /\ build' = Take(build, b)
  /\ pb' = IF upload[b] # "none" THEN [step |-> "create", bot |-> b, held |-> TRUE] ELSE PbIdle
  /\ UNCHANGED <<upload, ready, pods, declared, schedule, ondeck, up, sc, od,
                 recorded, history, faults>>

CreatePod ==
  /\ BuilderAt("create")
  /\ pods[pb.bot] = "none"
  /\ pods' = [pods EXCEPT ![pb.bot] = "starting"]
  /\ pb' = [pb EXCEPT !.step = "wait"]
  /\ UNCHANGED <<upload, ready, broker, up, sc, od, recorded, history, faults>>

\* Faulty variant: the message of a failed build is put back into its queue.
CreatePodConflict_requeued ==
  /\ BuilderAt("create")
  /\ pods[pb.bot] # "none"
  /\ Redeliver(TRUE, FALSE)
  /\ DispatcherStops
  /\ UNCHANGED <<pods, podless, faults>>

\* Kubernetes refuses a second pod of the same name: ApiException 409.
CreatePodConflict ==
  /\ BuilderAt("create")
  /\ pods[pb.bot] # "none"
  /\ PodBuilderRaises
  /\ UNCHANGED <<pods, faults>>

\* wait_for_pod_ready, get_pod_ip and wait_for_http_ready return.
PodStarts ==
  /\ BuilderAt("wait")
  /\ pods[pb.bot] = "starting"
  /\ pods' = [pods EXCEPT ![pb.bot] = "running"]
  /\ pb' = [pb EXCEPT !.step = "set_ready"]
  /\ UNCHANGED <<upload, ready, broker, up, sc, od, recorded, history, faults>>

\* ... or one of them raises RuntimeError or TimeoutError.  A pod that is only
\* late counts as dead: its bot never becomes ready, so nobody asks it.
PodDoesNotStart ==
  /\ BuilderAt("wait")
  /\ Fault("pod_build")
  /\ pods' = [pods EXCEPT ![pb.bot] = "dead"]
  /\ PodBuilderRaises

\* Faulty variant: the session is closed without a commit.
SetPodReady_uncommitted ==
  /\ BuilderAt("set_ready")
  /\ pb' = [pb EXCEPT !.step = "publish"]
  /\ UNCHANGED <<upload, ready, pods, broker, up, sc, od, recorded, history, faults>>

SetPodReady ==
  /\ BuilderAt("set_ready")
  /\ ready' = ready \cup {pb.bot}
  /\ pb' = [pb EXCEPT !.step = "publish"]
  /\ UNCHANGED <<upload, pods, broker, up, sc, od, recorded, history, faults>>

PublishPodReady ==
  /\ BuilderAt("publish")
  /\ schedule' = Publish("matches.schedule", schedule, pb.bot)
  /\ pb' = [pb EXCEPT !.step = "ack"]
  /\ UNCHANGED <<upload, ready, pods, declared, build, ondeck, up, sc, od,
                 recorded, history, faults>>

\* The handler returns; the ack of one whose channel was closed gets lost.
BuilderAcks ==
  /\ BuilderAt("ack")
  /\ pb' = PbIdle
  /\ UNCHANGED <<upload, ready, pods, broker, up, sc, od, recorded, history, faults>>

\* The channel under the handler has been closed: its publication or its ack
\* may raise.  The message is in the queue again.
StaleBuilderRaises ==
  /\ BuilderAt("publish") \/ BuilderAt("ack")
  /\ ~pb.held
  /\ PodBuilderRaises
  /\ UNCHANGED <<pods, faults>>

BuilderErrs ==
  /\ \E step \in {"create", "set_ready", "publish"} : BuilderAt(step)
  /\ Fault("dispatcher_error")
  /\ PodBuilderRaises
  /\ UNCHANGED pods
-----------------------------------------------------------------------------
(* match_scheduler: handle_pod_ready_message and _enqueue_matches. *)

SchedulerAt(step) == "match_scheduler" \in up /\ sc.step = step

SchedulerReceives(b) ==
  /\ SchedulerAt("idle")
  /\ schedule[b] > 0
  /\ schedule' = Take(schedule, b)
  /\ sc' = [step |-> "read", bot |-> b, others |-> {}, mirror |-> NoBot,
            held |-> TRUE]
  /\ UNCHANGED <<upload, ready, pods, declared, build, ondeck, up, pb, od,
                 recorded, history, faults>>

\* Faulty variant: only the bots announced before are read, from a cache.
ReadReadyBots_cached ==
  /\ SchedulerAt("read")
  /\ sc' = [sc EXCEPT !.step = "publish", !.others = handled]
  /\ UNCHANGED <<upload, ready, pods, broker, up, pb, od, recorded, history, faults>>

\* repo.ready_bots(), in a session of its own.
ReadReadyBots ==
  /\ SchedulerAt("read")
  /\ sc' = [sc EXCEPT !.step = "publish", !.others = ready]
  /\ UNCHANGED <<upload, ready, pods, broker, up, pb, od, recorded, history, faults>>

PublishMatch(x, o) ==
  /\ ondeck' = Publish("matches.ondeck", ondeck, <<x, o>>)
  /\ published' = [published EXCEPT ![<<x, o>>] = @ + 1]
  /\ dropped' = IF "matches.ondeck" \in declared THEN dropped
                ELSE [dropped EXCEPT ![<<x, o>>] = @ + 1]
  /\ UNCHANGED <<upload, ready, pods, declared, build, schedule, up, pb, od,
                 recorded, handled, stops, podless, closings, faults>>

\* Faulty variant: the mirrored pairing of a bot with itself is published too.
EnqueueAsX_self(other) ==
  /\ SchedulerAt("publish")
  /\ sc.mirror = NoBot
  /\ other \in sc.others
  /\ sc' = [sc EXCEPT !.others = @ \ {other}, !.mirror = other]
  /\ PublishMatch(sc.bot, other)

\* The loop over ready_bots, in whatever order the database returned them:
\* first the new bot as X ...
EnqueueAsX(other) ==
  /\ SchedulerAt("publish")
  /\ sc.mirror = NoBot
  /\ other \in sc.others
  /\ sc' = [sc EXCEPT !.others = @ \ {other},
                      !.mirror = IF other # sc.bot THEN other ELSE NoBot]
  /\ PublishMatch(sc.bot, other)

\* ... then, unless it would play itself again, as O.
EnqueueAsO ==
  /\ SchedulerAt("publish")
  /\ sc.mirror # NoBot
  /\ sc' = [sc EXCEPT !.mirror = NoBot]
  /\ PublishMatch(sc.mirror, sc.bot)

SchedulerAcks ==
  /\ SchedulerAt("publish")
  /\ sc.others = {} /\ sc.mirror = NoBot
  /\ sc' = ScIdle
  /\ handled' = handled \cup {sc.bot}
  /\ UNCHANGED <<upload, ready, pods, broker, up, pb, od, recorded, published,
                 dropped, stops, podless, closings, faults>>

SchedulerStops ==
  /\ up' = up \ {"match_scheduler"}
  /\ sc' = ScIdle
  /\ UNCHANGED <<upload, ready, pods, declared, build, ondeck, pb, od,
                 recorded, history>>

SchedulerErrs ==
  /\ "match_scheduler" \in up /\ ~Idle(sc)
  /\ Fault("scheduler_error")
  /\ SchedulerStops
  /\ UNCHANGED schedule

\* As in pod_builder: a publication or the ack may raise.
StaleSchedulerRaises ==
  /\ SchedulerAt("publish")
  /\ ~sc.held
  /\ SchedulerStops
  /\ UNCHANGED <<schedule, faults>>

\* Faulty variant: messages are acked when they are received.
KillScheduler_acked ==
  /\ "match_scheduler" \in up
  /\ Fault("kill_scheduler")
  /\ SchedulerStops
  /\ UNCHANGED schedule

KillScheduler ==
  /\ "match_scheduler" \in up
  /\ Fault("kill_scheduler")
  /\ schedule' = IF sc.held THEN [schedule EXCEPT ![sc.bot] = @ + 1] ELSE schedule
  /\ SchedulerStops
-----------------------------------------------------------------------------
(* ondeck_handler: handle_match_ondeck. *)

OndeckAt(step) == "ondeck_handler" \in up /\ od.step = step

\* Faulty variant: a bot does not play itself.
OndeckReceives_no_self(p) ==
  /\ OndeckAt("idle")
  /\ ondeck[p] > 0
  /\ ondeck' = Take(ondeck, p)
  /\ od' = IF p[1] # p[2] THEN [step |-> "play", pair |-> p] ELSE OdIdle
  /\ UNCHANGED <<upload, ready, pods, declared, build, schedule, up, pb, sc,
                 recorded, history, faults>>

\* _fetch_match_bots: without both rows, or without a pod name, it is acked.
OndeckReceives(p) ==
  /\ OndeckAt("idle")
  /\ ondeck[p] > 0
  /\ ondeck' = Take(ondeck, p)
  /\ od' = IF {p[1], p[2]} \subseteq ready
             THEN [step |-> "play", pair |-> p] ELSE OdIdle
  /\ UNCHANGED <<upload, ready, pods, declared, build, schedule, up, pb, sc,
                 recorded, history, faults>>

\* run_match_from_pods (module MatchRunner) returns a result: a pod that is
\* dead but still has its IP refuses the connection and forfeits.
PlayMatch ==
  /\ OndeckAt("play")
  /\ \A b \in {od.pair[1], od.pair[2]} : pods[b] # "no_ip"
  /\ od' = [od EXCEPT !.step = "record"]
  /\ UNCHANGED <<upload, ready, pods, broker, up, pb, sc, recorded, history, faults>>

\* get_pod_ip raises: a pod has no IP.
PlayWithoutPod ==
  /\ OndeckAt("play")
  /\ \E b \in {od.pair[1], od.pair[2]} : pods[b] = "no_ip"
  /\ OndeckHandlerRaises
  /\ podless' = podless + 1
  /\ UNCHANGED <<pods, faults>>

\* Faulty variant: the match is recorded again and again.
RecordMatch_again ==
  /\ OndeckAt("record")
  /\ recorded' = [recorded EXCEPT ![od.pair] = @ + 1]
  /\ UNCHANGED <<upload, ready, pods, broker, up, pb, sc, od, history, faults>>

RecordMatch ==
  /\ OndeckAt("record")
  /\ recorded' = [recorded EXCEPT ![od.pair] = @ + 1]
  /\ od' = [od EXCEPT !.step = "ack"]
  /\ UNCHANGED <<upload, ready, pods, broker, up, pb, sc, history, faults>>

\* The event for the dashboard is best-effort and never raises.
OndeckAcks ==
  /\ OndeckAt("ack")
  /\ od' = OdIdle
  /\ UNCHANGED <<upload, ready, pods, broker, up, pb, sc, recorded, history, faults>>

OndeckErrs ==
  /\ OndeckAt("play") \/ OndeckAt("record")
  /\ Fault("dispatcher_error")
  /\ OndeckHandlerRaises
  /\ UNCHANGED <<pods, podless>>

PodLost(b) ==
  /\ pods[b] = "running"
  /\ Fault("pod_lost")
  /\ \E state \in {"dead", "no_ip"} : pods' = [pods EXCEPT ![b] = state]
  /\ UNCHANGED <<upload, ready, broker, up, pb, sc, od, recorded, history>>
-----------------------------------------------------------------------------
(* make_health_echo_handler, asked by a readiness probe: it looks for a queue
   that does not exist while the consumer works on a message.  (A consumer
   that is idle only opens its channel again.) *)

Closing(consumer) ==
  /\ closings["pod_builder"] + closings["match_scheduler"] < MaxClosings
  /\ closings' = [closings EXCEPT ![consumer] = @ + 1]

BuilderChannelCloses ==
  /\ "pod_builder" \in up /\ pb.held
  /\ "matches.schedule" \notin declared
  /\ Closing("pod_builder")
  /\ build' = [build EXCEPT ![pb.bot] = @ + 1]
  /\ pb' = [pb EXCEPT !.held = FALSE]
  /\ UNCHANGED <<upload, ready, pods, declared, schedule, ondeck, up, sc, od,
                 recorded, published, dropped, handled, stops, podless, faults>>

SchedulerChannelCloses ==
  /\ "match_scheduler" \in up /\ sc.held
  /\ "matches.ondeck" \notin declared
  /\ Closing("match_scheduler")
  /\ schedule' = [schedule EXCEPT ![sc.bot] = @ + 1]
  /\ sc' = [sc EXCEPT !.held = FALSE]
  /\ UNCHANGED <<upload, ready, pods, declared, build, ondeck, up, pb, od,
                 recorded, published, dropped, handled, stops, podless, faults>>
-----------------------------------------------------------------------------
WebStep == \E b \in Bots : EnqueueBuildPod(b)

BuilderStep ==
  \/ \E b \in Bots : BuilderReceives(b)
  \/ CreatePod \/ CreatePodConflict \/ PodStarts
  \/ SetPodReady \/ PublishPodReady \/ BuilderAcks

SchedulerStep ==
  \/ \E b \in Bots : SchedulerReceives(b)
  \/ ReadReadyBots
  \/ \E b \in Bots : EnqueueAsX(b)
  \/ EnqueueAsO
  \/ SchedulerAcks

OndeckStep ==
  \/ \E p \in Pairs : OndeckReceives(p)
  \/ PlayMatch \/ PlayWithoutPod \/ RecordMatch \/ OndeckAcks

FaultStep ==
  \/ \E b \in Bots : EnqueueFails(b) \/ PodLost(b)
  \/ KillDispatcher \/ KillScheduler
  \/ PodDoesNotStart \/ BuilderErrs \/ SchedulerErrs \/ OndeckErrs

ProbeStep ==
  \/ BuilderChannelCloses \/ SchedulerChannelCloses
  \/ StaleBuilderRaises \/ StaleSchedulerRaises

Next ==
  \/ \E b \in Bots : Upload(b)
  \/ \E c \in Consumers : Start(c)
  \/ WebStep \/ BuilderStep \/ SchedulerStep \/ OndeckStep \/ FaultStep
  \/ ProbeStep

Spec == Init /\ [][Next]_vars

\* Kubernetes restarts an ended container; a running consumer keeps taking
\* steps, for the Kubernetes API, the broker and Postgres answer it or fail.
\* Nothing makes a user upload a bot, a fault happen or a probe come.
Fairness ==
  /\ \A c \in Consumers : WF_vars(Start(c))
  /\ WF_vars(WebStep)
  /\ WF_vars(BuilderStep)
  /\ WF_vars(SchedulerStep)
  /\ WF_vars(OndeckStep)

FairSpec == Spec /\ Fairness
-----------------------------------------------------------------------------
\* Any two bots whose PodReadyMessage has been handled have been put on deck
\* in both roles, whatever crashed in between: whichever was handled second
\* read the other's pod_ready, which set_pod_ready commits before the message
\* is published.
PairsCovered == \A a, b \in handled : published[<<a, b>>] > 0

\* Only bots whose pod has answered are announced or put on deck, so
\* ondeck_handler never meets a bot without a pod name.
OnlyReadyBots ==
  /\ \A b \in Bots : schedule[b] > 0 => b \in ready
  /\ \A p \in Pairs : published[p] > 0 => {p[1], p[2]} \subseteq ready
  /\ \A b \in ready : pods[b] \in {"running", "dead", "no_ip"}

\* A pairing is put on deck once by each of its two bots' messages, and once
\* more for a scheduler killed while it handled one of them, or whose channel
\* a probe closed meanwhile: a bot is announced once, because Kubernetes
\* refuses to create its pod twice.
SchedulingBounded ==
  \A p \in Pairs :
    published[p] <= (IF p[1] = p[2] THEN 1 ELSE 2) + faults + closings["match_scheduler"]

\* The matches of a pairing that are still to be recorded: on deck, or with
\* ondeck_handler, which has not acked them yet.
Unrecorded(p) ==
  ondeck[p] + (IF od.pair = p /\ od.step \in {"play", "record"} THEN 1 ELSE 0)

Accounted(p) == recorded[p] + Unrecorded(p)

\* Each end of the dispatcher repeats at most one match of a pairing (ended
\* after the commit and before the ack) and loses at most one; nothing else
\* repeats a match, or loses one that did not come before its queue existed.
MatchesAccounted ==
  \A p \in Pairs :
    /\ Accounted(p) + dropped[p] <= published[p] + stops
    /\ published[p] <= Accounted(p) + dropped[p] + stops

\* The dispatcher does not crash for ever: a fault, a match whose pod has no IP
\* or a probe that closes pod_builder's channel ends it once, and at most once
\* more when the build that it cut off is delivered again and finds its pod
\* created.
StopsBounded == stops <= 2 * (faults + podless + closings["pod_builder"])

\* Once two bots' builds are enqueued their match in each role is recorded.
EveryPairPlays ==
  \A a, b \in Bots :
    (upload[a] = "enqueued" /\ upload[b] = "enqueued")
      ~> (recorded[<<a, b>>] > 0)

\* README.md:234 has it that "once a bot's pod is ready, match_scheduler pairs
\* it against every other ready bot".
ReadyBotsArePaired ==
  \A a, b \in Bots : ({a, b} \subseteq ready) ~> (published[<<a, b>>] > 0)
-----------------------------------------------------------------------------
\* The pipeline as a tournament: a ready bot takes part, a published pairing
\* is scheduled, a row of the matches table is a result.
Promise == INSTANCE Tournament
  WITH field <- ready, entered <- handled, scheduled <- published,
       deck <- [p \in Pairs |-> Unrecorded(p)], results <- recorded,
       open <- "matches.ondeck" \in declared

\* Whatever crashes, and in whatever order the three consumers run, they hold
\* an all-play-all tournament of the ready bots: the scheduler acks a bot only
\* when it has been paired with all before it, a match is recorded only if it
\* was put on deck, and an end of the dispatcher, which cuts off two handlers
\* at once, loses or repeats no more than a single match of all pairings.
PlaysTournament == Promise!TournamentSpec

=============================================================================
