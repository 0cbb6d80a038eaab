------------------------------- MODULE Health -------------------------------
(***************************************************************************)
(* GET /health (messaging/health.py): a gateway runs its checks one after  *)
(* the other and answers 200 if all of them pass, 503 otherwise.  The web  *)
(* service probes Postgres and the broker itself.  The gateways of the     *)
(* dispatcher and the match scheduler ask their consumers by remote        *)
(* procedure call (rpc_client.py, rpc_server.py); a gateway and the        *)
(* consumers it asks are tasks of one process.                             *)
(*                                                                         *)
(* Every call has a connection and a reply queue of its own, which end     *)
(* with it.  The consumer answers on the channel that its work arrives on. *)
(* A request is named by the probe and the check that sent it, and so is   *)
(* its nonce.                                                              *)
(***************************************************************************)
EXTENDS Integers, SequencesExt

CONSTANTS
  Probes,      \* GET /health requests
  Running0,    \* the consumers that run at first
  Working,     \* the consumers that have a message to work on
  MaxFaults    \* outages and crashes

Services == {"web", "dispatcher", "match_scheduler"}

Consumers == {"pod_builder", "ondeck_handler", "match_scheduler"}

ASSUME ConsumersAssumption == Running0 \cup Working \subseteq Consumers

ASSUME FaultsAssumption == MaxFaults \in Nat

\* The checks given to make_health_router, in order.
Checks(service) ==
  CASE service = "web" -> <<"db", "broker">>
    [] service = "dispatcher" -> <<"pod_builder", "ondeck_handler">>
    [] service = "match_scheduler" -> <<"match_scheduler">>

Service(c) == IF c = "match_scheduler" THEN c ELSE "dispatcher"

\* The queue a consumer reads, and the one its echo handler looks for.
WorkQueue(c) ==
  CASE c = "pod_builder" -> "matches.build"
    [] c = "match_scheduler" -> "matches.schedule"
    [] c = "ondeck_handler" -> "matches.ondeck"

PublishQueue(c) ==
  IF c = "pod_builder" THEN "matches.schedule" ELSE "matches.ondeck"

HealthQueue(c) ==
  CASE c = "pod_builder" -> "health.dispatcher.pod-builder"
    [] c = "match_scheduler" -> "health.match-scheduler"
    [] c = "ondeck_handler" -> "health.dispatcher.ondeck-handler"

\* What a check vouches for when it passes.
Vouches(check) ==
  CASE check = "db" -> {"db"}
    [] check = "broker" -> {"broker", "matches.build"}
    [] check \in Consumers -> {"db", "broker", check, PublishQueue(check)}

VARIABLES
  up,         \* what is there: "db", "broker", consumers, declared queues
  probe,      \* each probe: where it is, its current check, the failed ones
  call,       \* the RpcClient of its current check
  requests,   \* each consumer's health queue
  serving,    \* the runs of on_message
  replies,    \* answers in the reply queues
  channel,    \* the consumers whose channel is open
  work,       \* the message that each consumer has to work on
  faults,
  seen,       \* history: what was there during each probe's current check
  backed,     \* history: its checks that saw all they vouch for
  raised      \* history: a future got a result though it was done

vars == <<up, probe, call, requests, serving, replies, channel, work, faults,
          seen, backed, raised>>

Request == Probes \X (1 .. 2)

NoReply == [echo |-> <<>>, db |-> FALSE, queue |-> FALSE]

\* `late`: the timer of wait_for has fired.
NewCall == [connected |-> FALSE, pending |-> FALSE, future |-> "wait",
            reply |-> NoReply, late |-> FALSE]

Running(p) == probe[p].at \in {"check", "publish", "wait"}

TypeOK ==
  LET Reply == [echo : Request, db : BOOLEAN, queue : BOOLEAN] IN
  /\ up \subseteq {"db", "broker"} \cup Consumers
       \cup UNION {{WorkQueue(c), HealthQueue(c)} : c \in Consumers}
  /\ probe \in [Probes -> [at : {"new", "check", "publish", "wait", "200", "503", "lost"},
                           service : Services, check : 1 .. 2, failed : SUBSET (1 .. 2)]]
  /\ call \in [Probes -> [connected : BOOLEAN, pending : BOOLEAN,
                          future : {"wait", "set", "cancelled"},
                          reply : Reply \cup {NoReply}, late : BOOLEAN]]
  /\ requests \in [Consumers -> Seq(Request)]
  /\ serving \subseteq [by : Consumers, request : Request, at : {"db", "queue", "reply"},
                        db : BOOLEAN, queue : BOOLEAN, live : BOOLEAN]
  /\ replies \subseteq Reply
  /\ channel \subseteq Consumers
  /\ work \in [Consumers -> {"waiting", "unacked", "stale", "acked"}]
  /\ faults \in 0 .. MaxFaults
  /\ raised \in BOOLEAN

Init ==
  /\ up = {"db", "broker"} \cup Running0
            \cup UNION {{WorkQueue(c), HealthQueue(c)} : c \in Running0}
  /\ probe = [p \in Probes |-> [at |-> "new", service |-> "web", check |-> 1, failed |-> {}]]
  /\ call = [p \in Probes |-> NewCall]
  /\ requests = [c \in Consumers |-> <<>>]
  /\ serving = {}
  /\ replies = {}
  /\ channel = Running0
  /\ work = [c \in Consumers |-> IF c \in Working THEN "waiting" ELSE "acked"]
  /\ faults = 0
  /\ seen = [p \in Probes |-> {}]
  /\ backed = [p \in Probes |-> {}]
  /\ raised = FALSE
-----------------------------------------------------------------------------
(* The gateway. *)

probes == <<probe, call>>
consumers == <<requests, serving, channel, work>>

Check(p) == Checks(probe[p].service)[probe[p].check]

At(p, place) == probe[p].at = place

Get(p, service) ==
  /\ At(p, "new")
  /\ probe' = [probe EXCEPT ![p].at = "check", ![p].service = service]
  /\ UNCHANGED <<up, call, consumers, replies, faults, raised>>

\* The next check, or the answer; the connection and its queue are closed.
CheckEnds(p, ok) ==
  LET i == probe[p].check
      failed == probe[p].failed \cup (IF ok THEN {} ELSE {i})
      last == i = Len(Checks(probe[p].service))
  IN  /\ probe' = [probe EXCEPT
           ![p].at = IF ~last THEN "check" ELSE IF failed = {} THEN "200" ELSE "503",
           ![p].check = IF last THEN i ELSE i + 1,
           ![p].failed = failed]
      /\ call' = [call EXCEPT ![p] = NewCall]
      /\ replies' = {r \in replies : r.echo[1] # p}
      /\ UNCHANGED <<up, consumers, faults, raised>>

db_check(p) ==
  /\ At(p, "check") /\ Check(p) = "db"
  /\ CheckEnds(p, "db" \in up)

broker_check(p) ==
  /\ At(p, "check") /\ Check(p) = "broker"
  /\ CheckEnds(p, {"broker", "matches.build"} \subseteq up)

\* worker_echo_check up to the publication of the request: the broker drops
\* it when nobody has declared the queue yet.
Connect(p) ==
  /\ At(p, "check") /\ Check(p) \in Consumers
  /\ \/ "broker" \notin up /\ CheckEnds(p, FALSE)
     \/ /\ "broker" \in up
        /\ probe' = [probe EXCEPT ![p].at = "publish"]
        /\ call' = [call EXCEPT ![p] = [NewCall EXCEPT !.connected = TRUE,
                                                       !.pending = TRUE]]
        /\ requests' = IF HealthQueue(Check(p)) \in up
                       THEN [requests EXCEPT ![Check(p)] =
                               Append(@, <<p, probe[p].check>>)]
                       ELSE requests
        /\ UNCHANGED <<up, serving, channel, work, replies, faults, raised>>

\* The broker confirms the request, perhaps after the reply has come.
Confirmed(p) ==
  /\ At(p, "publish") /\ call[p].connected
  /\ probe' = [probe EXCEPT ![p].at = "wait"]
  /\ UNCHANGED <<up, call, consumers, replies, faults, raised>>

PublishFails(p) ==
  /\ At(p, "publish") /\ ~call[p].connected
  /\ CheckEnds(p, FALSE)

\* The reply taken from the pending calls; set_result raises
\* InvalidStateError when the future is done.
SetResult(p, r) ==
  /\ call' = [call EXCEPT ![p].pending = FALSE, ![p].future = "set", ![p].reply = r]
  /\ raised' = (raised \/ call[p].future # "wait")

\* Faulty variant: the future is not asked whether it is done.
OnReply_unasked(p, r) ==
  /\ r \in replies /\ r.echo[1] = p
  /\ replies' = replies \ {r}
  /\ \/ call[p].pending /\ SetResult(p, r)
     \/ ~call[p].pending /\ UNCHANGED <<call, raised>>
  /\ UNCHANGED <<up, probe, consumers, faults>>

\* RpcClient._on_reply.
OnReply(p, r) ==
  /\ r \in replies /\ r.echo[1] = p
  /\ replies' = replies \ {r}
  /\ \/ call[p].pending /\ call[p].future = "wait" /\ SetResult(p, r)
     \/ /\ call[p].pending /\ call[p].future # "wait"
        /\ call' = [call EXCEPT ![p].pending = FALSE]
        /\ UNCHANGED raised
     \/ ~call[p].pending /\ UNCHANGED <<call, raised>>
  /\ UNCHANGED <<up, probe, consumers, faults>>

\* wait_for's timer cancels the future; the waiting task runs later.
TimerFires(p) ==
  /\ At(p, "wait") /\ ~call[p].late
  /\ call' = [call EXCEPT ![p].late = TRUE,
                          ![p].future = IF @ = "wait" THEN "cancelled" ELSE @]
  /\ UNCHANGED <<up, probe, consumers, replies, faults, raised>>

\* Faulty variant: the statuses in the reply are not looked at.
Verdict_echo_only(request, reply) == reply.echo = request

\* What worker_echo_check makes of the reply.
Verdict(request, reply) == reply.echo = request /\ reply.db /\ reply.queue

\* Faulty variant: the call waits for the reply for ever.
Resume_no_timeout(p) ==
  /\ At(p, "wait") /\ call[p].future = "set"
  /\ CheckEnds(p, Verdict(<<p, probe[p].check>>, call[p].reply))

\* The end of call and of worker_echo_check.  A task whose timer has fired
\* gets the TimeoutError even if the reply came in between.
Resume(p) ==
  /\ At(p, "wait") /\ (call[p].late \/ call[p].future = "set")
  /\ CheckEnds(p, ~call[p].late /\ Verdict(<<p, probe[p].check>>, call[p].reply))
-----------------------------------------------------------------------------
(* The consumers: run() of each, and serve_rpc with the echo handler. *)

Start(c) ==
  /\ c \notin up /\ "broker" \in up
  /\ up' = up \cup {c, WorkQueue(c), HealthQueue(c)}
  /\ channel' = channel \cup {c}
  /\ UNCHANGED <<probes, requests, serving, work, replies, faults, raised>>

TakeRequest(c) ==
  /\ c \in channel /\ requests[c] # <<>>
  /\ ~\E h \in serving : h.by = c /\ h.live      \* prefetch_count=1
  /\ serving' = serving \cup {[by |-> c, request |-> Head(requests[c]), at |-> "db",
                               db |-> FALSE, queue |-> FALSE, live |-> TRUE]}
  /\ requests' = [requests EXCEPT ![c] = Tail(@)]
  /\ UNCHANGED <<up, probes, channel, work, replies, faults, raised>>

\* The request's expiration.
Expire(c) ==
  /\ requests[c] # <<>>
  /\ requests' = [requests EXCEPT ![c] = Tail(@)]
  /\ UNCHANGED <<up, probes, serving, channel, work, replies, faults, raised>>

HandlerChecksDb(h) ==
  /\ h \in serving /\ h.at = "db"
  /\ serving' = (serving \ {h}) \cup
                {[h EXCEPT !.at = "queue", !.db = "db" \in up]}
  /\ UNCHANGED <<up, probes, requests, channel, work, replies, faults, raised>>

\* The health queues after the broker has put back what it had delivered on
\* the channels of the given consumers.
Requeued(cs) ==
  LET unacked(c) == {h.request : h \in {s \in serving : s.by = c /\ s.live}}
  IN  [c \in Consumers |->
         IF c \in cs THEN SetToSeq(unacked(c)) \o requests[c] ELSE requests[c]]

\* The channels of the given consumers close; their handlers go on.
Redeliver(cs) ==
  /\ requests' = Requeued(cs)
  /\ work' = [c \in Consumers |->
       IF c \in cs /\ work[c] = "unacked" THEN "stale" ELSE work[c]]
  /\ channel' = channel \ cs

Cut(hs, cs) == {IF h.by \in cs THEN [h EXCEPT !.live = FALSE] ELSE h : h \in hs}

\* The passive declare runs on the channel that work arrives on: the broker
\* closes the channel when the queue does not exist.
HandlerChecksQueue(h) ==
  LET c == h.by
      ok == c \in channel /\ PublishQueue(c) \in up
      after == (serving \ {h}) \cup {[h EXCEPT !.at = "reply", !.queue = ok]}
  IN  /\ h \in serving /\ h.at = "queue"
      /\ IF ok \/ c \notin channel
         THEN serving' = after /\ UNCHANGED <<requests, channel, work>>
         ELSE serving' = Cut(after, {c}) /\ Redeliver({c})
      /\ UNCHANGED <<up, probes, replies, faults, raised>>

\* Faulty variant: the reply does not echo the request.
HandlerReplies_no_echo(h) ==
  /\ h \in serving /\ h.at = "reply"
  /\ serving' = serving \ {h}
  /\ replies' = replies \cup {[echo |-> <<>>, db |-> h.db, queue |-> h.queue]}
  /\ UNCHANGED <<up, probes, requests, channel, work, faults, raised>>

\* Publish the reply, which reaches a caller that still waits, and ack: an
\* error when the channel is gone.
HandlerReplies(h) ==
  LET p == h.request[1] IN
  /\ h \in serving /\ h.at = "reply"
  /\ serving' = serving \ {h}
  /\ replies' = IF /\ h.by \in channel
                   /\ call[p].connected /\ probe[p].check = h.request[2]
                THEN replies \cup {[echo |-> h.request, db |-> h.db, queue |-> h.queue]}
                ELSE replies
  /\ UNCHANGED <<up, probes, requests, channel, work, faults, raised>>

\* connect_robust and its channel recover, with the queues they declared.
Reopen(c) ==
  /\ c \in up \ channel /\ "broker" \in up
  /\ channel' = channel \cup {c}
  /\ up' = up \cup {WorkQueue(c), HealthQueue(c)}
  /\ UNCHANGED <<probes, requests, serving, work, replies, faults, raised>>

TakeWork(c) ==
  /\ c \in channel /\ work[c] = "waiting"
  /\ work' = [work EXCEPT ![c] = "unacked"]
  /\ UNCHANGED <<up, probes, requests, serving, channel, replies, faults, raised>>

AckWork(c) ==
  /\ work[c] = "unacked"
  /\ work' = [work EXCEPT ![c] = "acked"]
  /\ UNCHANGED <<up, probes, requests, serving, channel, replies, faults, raised>>

\* The end of a process: its consumers and its probes.
Ends(service) ==
  LET cs == {c \in Consumers : Service(c) = service}
      gone == {p \in Probes : probe[p].service = service /\ Running(p)}
  IN  /\ up' = up \ cs
      /\ channel' = channel \ cs
      /\ serving' = {h \in serving : h.by \notin cs}
      /\ requests' = Requeued(cs)
      /\ work' = [c \in Consumers |->
           IF c \in cs /\ work[c] # "acked" THEN "waiting" ELSE work[c]]
      /\ probe' = [p \in Probes |->
           IF p \in gone THEN [probe[p] EXCEPT !.at = "lost"] ELSE probe[p]]
      /\ call' = [p \in Probes |-> IF p \in gone THEN NewCall ELSE call[p]]
      /\ replies' = {r \in replies : r.echo[1] \notin gone}
      /\ UNCHANGED raised

\* A handler whose delivery is gone ends: the ack it cannot send either gets
\* lost or ends the process.
StaleWorkEnds(c) ==
  /\ work[c] = "stale"
  /\ \/ /\ work' = [work EXCEPT ![c] = "waiting"]
        /\ UNCHANGED <<up, probes, requests, serving, channel, replies, raised>>
     \/ Ends(Service(c))
  /\ UNCHANGED faults
-----------------------------------------------------------------------------
(* The environment. *)

Fault == faults < MaxFaults /\ faults' = faults + 1

DbDown ==
  /\ "db" \in up /\ Fault
  /\ up' = up \ {"db"}
  /\ UNCHANGED <<probes, consumers, replies, raised>>

\* The broker's container ends: with it the connections and the requests,
\* which are not persistent, and the queues too unless the disk survives.
BrokerDown ==
  /\ "broker" \in up /\ Fault
  /\ \E kept \in {{}, up \ Consumers} :
       up' = (up \cap ({"db"} \cup Consumers)) \cup (kept \ {"broker"})
  /\ serving' = Cut(serving, Consumers)
  /\ requests' = [c \in Consumers |-> <<>>]
  /\ work' = [c \in Consumers |-> IF work[c] = "unacked" THEN "stale" ELSE work[c]]
  /\ channel' = {}
  /\ call' = [p \in Probes |-> [call[p] EXCEPT !.connected = FALSE]]
  /\ replies' = {}
  /\ UNCHANGED <<probe, raised>>

Recover ==
  /\ \E d \in {"db", "broker"} \ up : up' = up \cup {d}
  /\ UNCHANGED <<probes, consumers, replies, faults, raised>>

Crash(service) ==
  /\ \E c \in up \cap Consumers : Service(c) = service
  /\ Fault
  /\ Ends(service)
-----------------------------------------------------------------------------
ProbeStep(p) ==
  \/ db_check(p) \/ broker_check(p) \/ Connect(p) \/ Confirmed(p)
  \/ PublishFails(p) \/ TimerFires(p) \/ Resume(p)

WorkStep(c) == TakeWork(c) \/ AckWork(c) \/ StaleWorkEnds(c)

Steps ==
  \/ \E p \in Probes : ProbeStep(p) \/ (\E s \in Services : Get(p, s)) \/ \E r \in replies : OnReply(p, r)
  \/ \E c \in Consumers :
       Start(c) \/ TakeRequest(c) \/ Expire(c) \/ Reopen(c) \/ WorkStep(c)
  \/ \E h \in serving : HandlerChecksDb(h) \/ HandlerChecksQueue(h) \/ HandlerReplies(h)
  \/ DbDown \/ BrokerDown \/ Recover
  \/ \E s \in Services : Crash(s)

\* The history: `now` is what the current check vouches for and has been
\* there since it began.
Observe ==
  LET now(p) == seen[p] \cup (Vouches(Check(p)) \cap (up \cup up'))
      same(p) == Running(p) /\ Running(p)' /\ probe'[p].check = probe[p].check
  IN  /\ seen' = [p \in Probes |-> IF same(p) THEN now(p) ELSE {}]
      /\ backed' = [p \in Probes |->
           IF Running(p) /\ ~same(p) /\ now(p) = Vouches(Check(p))
           THEN backed[p] \cup {probe[p].check} ELSE backed[p]]

Next == Steps /\ Observe

Spec == Init /\ [][Next]_vars

\* A probe goes on: timers fire, and a call into a library returns or raises.
Fairness == \A p \in Probes : WF_vars(ProbeStep(p) /\ Observe)

FairSpec == Spec /\ Fairness
-----------------------------------------------------------------------------
\* A probe is answered 200 only if everything its checks vouch for was there
\* at some time during that very check: no outage before the probe, lost
\* request, late or repeated reply makes a sick service look healthy.
HealthyWasHealthy ==
  \A p \in Probes : At(p, "200") => backed[p] = DOMAIN Checks(probe[p].service)

\* No reply, late or repeated, is given to a future that is done: set_result
\* would raise InvalidStateError in the consumer of the reply queue.
ResolvedOnce == ~raised

\* Every probe is answered, though its request may be dropped, expire or be
\* taken by a consumer that never answers, or ends with its process.
ProbeAnswered ==
  \A p \in Probes : Running(p) ~> probe[p].at \in {"200", "503", "lost"}
=============================================================================
