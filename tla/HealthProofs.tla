---------------------------- MODULE HealthProofs ----------------------------
(***************************************************************************)
(* Health proved for any number of probes, faults and running consumers.   *)
(*                                                                         *)
(* Between a check and what it vouches for lie a request, a run of         *)
(* on_message, a reply and a future.  Each of them carries the name of the *)
(* check it belongs to; the invariant says of each that what it has found  *)
(* so far was there during that very check, if the check is still under    *)
(* way (Current).  A request of an earlier check may be served and         *)
(* answered at any later time, but its echo never names a current check.   *)
(***************************************************************************)
EXTENDS Health, FiniteSetTheorems, SequenceTheorems, TLAPS

Places == {"new", "check", "publish", "wait", "200", "503", "lost"}
Gateways == [at : Places, service : Services, check : 1 .. 2, failed : SUBSET (1 .. 2)]
Answers == [echo : Request, db : BOOLEAN, queue : BOOLEAN]
Calls == [connected : BOOLEAN, pending : BOOLEAN, future : {"wait", "set", "cancelled"},
          reply : Answers \cup {NoReply}, late : BOOLEAN]
Handlers == [by : Consumers, request : Request, at : {"db", "queue", "reply"},
             db : BOOLEAN, queue : BOOLEAN, live : BOOLEAN]
Things == {"db", "broker"} \cup Consumers
            \cup UNION {{WorkQueue(c), HealthQueue(c)} : c \in Consumers}

\* The types, with the names used here.
LEMMA Types ==
  TypeOK <=> /\ up \subseteq Things /\ probe \in [Probes -> Gateways]
             /\ call \in [Probes -> Calls] /\ requests \in [Consumers -> Seq(Request)]
             /\ serving \subseteq Handlers /\ replies \subseteq Answers
             /\ channel \subseteq Consumers
             /\ work \in [Consumers -> {"waiting", "unacked", "stale", "acked"}]
             /\ faults \in 0 .. MaxFaults /\ raised \in BOOLEAN
BY Zenon DEF TypeOK, Things, Gateways, Places, Calls, Answers, Handlers

\* Every gateway has one check or two, and what each of them vouches for.
LEMMA CheckFacts ==
  ASSUME NEW s \in Services
  PROVE  /\ Checks(s) \in Seq({"db", "broker"} \cup Consumers)
         /\ Len(Checks(s)) \in 1 .. 2 /\ DOMAIN Checks(s) = 1 .. Len(Checks(s))
<1>1. CASE s = "web"
  BY <1>1 DEF Checks
<1>2. CASE s = "dispatcher"
  BY <1>2 DEF Checks, Consumers
<1>3. CASE s = "match_scheduler"
  BY <1>3 DEF Checks, Consumers
<1> QED
  BY <1>1, <1>2, <1>3 DEF Services
-----------------------------------------------------------------------------
(* The inductive invariant. *)

\* The request has been published, by a check that asks this consumer.
Sent(r) ==
  /\ ~At(r[1], "new")
  /\ r[2] < probe[r[1]].check \/ (r[2] = probe[r[1]].check /\ ~At(r[1], "check"))
For(c, r) == Sent(r) /\ Checks(probe[r[1]].service)[r[2]] = c

\* The check it belongs to is under way.
Current(r) == Running(r[1]) /\ r[2] = probe[r[1]].check

Asking(p) == probe[p].at \in {"publish", "wait"}

\* The reply claims nothing but what is among the given things.
Shown(p, r, there) ==
  /\ Check(p) \in there
  /\ r.db => "db" \in there
  /\ r.queue => PublishQueue(Check(p)) \in there

Found(h, there) ==
  /\ h.db => "db" \in there
  /\ h.queue => PublishQueue(h.by) \in there

RequestInv ==
  \A c \in Consumers : \A k \in DOMAIN requests[c] : For(c, requests[c][k])

ServingInv ==
  \A h \in serving : /\ For(h.by, h.request)
                     /\ Current(h.request) => Found(h, seen[h.request[1]])

RepliesInv ==
  \A r \in replies :
    /\ \E c \in Consumers : For(c, r.echo)
    /\ Current(r.echo) => Shown(r.echo[1], r, seen[r.echo[1]])

CallInv ==
  \A p \in Probes : Asking(p) =>
    /\ Check(p) \in Consumers /\ "broker" \in seen[p]
    /\ call[p].reply.echo = <<p, probe[p].check>> => Shown(p, call[p].reply, seen[p])

\* The checks before the current one have failed or saw all they vouch for.
ProbeInv ==
  \A p \in Probes :
    /\ At(p, "new") => probe[p].check = 1 /\ probe[p].failed = {} /\ backed[p] = {}
    /\ Running(p) => /\ probe[p].check <= Len(Checks(probe[p].service))
                     /\ seen[p] \subseteq Vouches(Check(p))
                     /\ backed[p] \subseteq 1 .. (probe[p].check - 1)
                     /\ 1 .. (probe[p].check - 1) \subseteq probe[p].failed \cup backed[p]

\* A channel belongs to a consumer that runs.
ChannelInv == channel \subseteq up /\ IsFiniteSet(serving)

IInv ==
  /\ TypeOK /\ RequestInv /\ ServingInv /\ RepliesInv /\ CallInv /\ ProbeInv
  /\ ChannelInv /\ HealthyWasHealthy
-----------------------------------------------------------------------------
(* What a step does to a probe. *)

\* What the check vouches for and has been there since it began.
Now(p) == seen[p] \cup (Vouches(Check(p)) \cap (up \cup up'))

\* CheckEnds, with the checks that have failed.
Ended(p, failed) ==
  LET i == probe[p].check
      last == i = Len(Checks(probe[p].service))
  IN  probe'[p] = [at |-> IF ~last THEN "check" ELSE IF failed = {} THEN "200" ELSE "503",
                   service |-> probe[p].service,
                   check |-> IF last THEN i ELSE i + 1,
                   failed |-> failed]

Moves(p) ==
  \/ probe'[p] = probe[p]
  \/ /\ At(p, "new")
     /\ \E s \in Services : probe'[p] = [probe[p] EXCEPT !.at = "check", !.service = s]
  \/ /\ probe[p].at \in {"check", "publish"} /\ Asking(p)'
     /\ \E to \in Places : probe'[p] = [probe[p] EXCEPT !.at = to]
  \/ /\ Running(p) /\ Now(p) = Vouches(Check(p)) /\ Ended(p, probe[p].failed)
  \/ /\ Running(p) /\ Ended(p, probe[p].failed \cup {probe[p].check})
  \/ /\ Running(p) /\ probe'[p] = [probe[p] EXCEPT !.at = "lost"]

\* A check never starts anew.
Forward(p) ==
  ~At(p, "new") =>
    /\ ~At(p, "new")' /\ probe'[p].service = probe[p].service
    /\ Running(p)' => Running(p)
    /\ probe'[p].check >= probe[p].check
    /\ probe'[p].check = probe[p].check /\ ~At(p, "check") => ~At(p, "check")'

LEMMA MovesForward ==
  ASSUME TypeOK, ProbeInv, NEW p \in Probes, Moves(p)
  PROVE  Forward(p) /\ probe'[p] \in Gateways
<1>1. probe[p] \in Gateways
  BY Types
<1>2. Len(Checks(probe[p].service)) \in 1 .. 2
  BY <1>1, CheckFacts DEF Gateways
<1>3. CASE probe'[p] = probe[p]
  BY <1>1, <1>3 DEF Forward, Gateways, At, Running
<1>4. CASE At(p, "new")
  <2>1. probe'[p] = probe[p] \/
        \E s \in Services : probe'[p] = [probe[p] EXCEPT !.at = "check", !.service = s]
    BY <1>1, <1>4 DEF Moves, At, Running
  <2> QED
    BY <1>1, <1>4, <2>1 DEF Forward, Gateways, At, Places
<1>5. CASE \E to \in Places : probe[p].at \in {"check", "publish"} /\ Asking(p)' /\ probe'[p] = [probe[p] EXCEPT !.at = to]
  BY <1>1, <1>5 DEF Forward, Gateways, At, Running, Asking, Places
<1>6. ASSUME NEW f \in SUBSET (1 .. 2), Running(p), Ended(p, f)
      PROVE  Forward(p) /\ probe'[p] \in Gateways
  <2>1. PICK i \in 1 .. 2, n \in 1 .. 2 :
          i = probe[p].check /\ n = Len(Checks(probe[p].service)) /\ i <= n
    BY <1>1, <1>2, <1>6 DEF Gateways, ProbeInv
  <2>2. PICK at \in Places, k \in 1 .. 2 :
          /\ probe'[p] = [at |-> at, service |-> probe[p].service, check |-> k, failed |-> f]
          /\ at # "new" /\ k >= i /\ (k = i => at # "check")
    <3> DEFINE at == IF i # n THEN "check" ELSE IF f = {} THEN "200" ELSE "503"
               k == IF i = n THEN i ELSE i + 1
    <3>1. at \in Places /\ k \in 1 .. 2 /\ at # "new" /\ k >= i /\ (k = i => at # "check")
      <4>1. CASE i = n
        <5>1. at \in {"200", "503"} /\ k = i
          BY <4>1
        <5> HIDE DEF at, k
        <5> QED
          BY <5>1 DEF Places
      <4>2. CASE i < n
        <5>1. at = "check" /\ k = i + 1
          BY <4>2
        <5> HIDE DEF at, k
        <5> QED
          BY <4>2, <5>1 DEF Places
      <4> QED
        BY <2>1, <4>1, <4>2
    <3>2. probe'[p] = [at |-> at, service |-> probe[p].service, check |-> k, failed |-> f]
      BY <1>6, <2>1, Zenon DEF Ended
    <3> QED
      BY <3>1, <3>2, Zenon
  <2> QED
    BY <1>1, <1>6, <2>1, <2>2 DEF Forward, Gateways, At, Running
<1>7. CASE Running(p) /\ probe'[p] = [probe[p] EXCEPT !.at = "lost"]
  BY <1>1, <1>7 DEF Forward, Gateways, At, Running, Places
<1> QED
  BY <1>1, <1>3, <1>4, <1>5, <1>6, <1>7 DEF Moves, Gateways
-----------------------------------------------------------------------------
(* What has been found stays true while the check is under way. *)

Progress == \A p \in Probes : Moves(p) /\ Forward(p) /\ probe'[p] \in Gateways

LEMMA SentStays ==
  ASSUME TypeOK, Progress, NEW r \in Request, Sent(r)
  PROVE  /\ Sent(r)' /\ probe'[r[1]].service = probe[r[1]].service
         /\ Current(r)' => Current(r) /\ probe'[r[1]].check = probe[r[1]].check
<1>1. r[1] \in Probes /\ r[2] \in 1 .. 2 /\ probe[r[1]] \in Gateways
  BY Types DEF Request
<1>2. Forward(r[1]) /\ probe'[r[1]] \in Gateways
  BY <1>1 DEF Progress
<1> QED
  BY <1>1, <1>2 DEF Sent, Current, Forward, Gateways, At

LEMMA ForStays ==
  ASSUME TypeOK, Progress, NEW r \in Request, NEW c, For(c, r)
  PROVE  For(c, r)'
BY SentStays DEF For

\* The history of the check that a request belongs to.
LEMMA SeenGrows ==
  ASSUME TypeOK, Progress, Observe, NEW r \in Request, Sent(r), Current(r)'
  PROVE  /\ seen'[r[1]] = Now(r[1]) /\ Check(r[1])' = Check(r[1])
<1>1. r[1] \in Probes
  BY DEF Request
<1> QED
  BY <1>1, SentStays DEF Observe, Now, Current, Running, Check

\* What each check vouches for: a consumer, for itself and for the queue it
\* publishes to.
LEMMA VouchesFacts ==
  /\ Vouches("db") = {"db"} /\ Vouches("broker") = {"broker", "matches.build"}
  /\ \A c \in Consumers : Vouches(c) = {"db", "broker", c, PublishQueue(c)}
<1>1. Vouches("db") = {"db"}
  BY DEF Vouches, Consumers
<1>2. Vouches("broker") = {"broker", "matches.build"}
  BY DEF Vouches, Consumers
<1>3. \A c \in Consumers : Vouches(c) = {"db", "broker", c, PublishQueue(c)}
  BY DEF Vouches, Consumers
<1> QED
  BY <1>1, <1>2, <1>3

LEMMA FoundStays ==
  ASSUME TypeOK, Progress, Observe, NEW h \in Handlers, For(h.by, h.request),
         Current(h.request) => Found(h, seen[h.request[1]] \cup up)
  PROVE  /\ For(h.by, h.request)'
         /\ Current(h.request)' => Found(h, seen'[h.request[1]])
<1> DEFINE r == h.request
<1>1. r \in Request /\ h.by \in Consumers
  BY DEF Handlers
<1>2. For(h.by, r)'
  BY <1>1, ForStays
<1>3. ASSUME Current(r)' PROVE Found(h, seen'[r[1]])
  <2>1. Current(r) /\ seen'[r[1]] = Now(r[1])
    BY <1>1, <1>3, SentStays, SeenGrows DEF For
  <2>2. Check(r[1]) = h.by
    BY <2>1 DEF For, Current, Check
  <2> QED
    BY <1>1, <2>1, <2>2, VouchesFacts DEF Found, Now
<1> QED
  BY <1>2, <1>3

LEMMA ShownStays ==
  ASSUME TypeOK, Progress, Observe, NEW r \in Answers, NEW c \in Consumers, For(c, r.echo),
         Current(r.echo) => Shown(r.echo[1], r, seen[r.echo[1]] \cup up)
  PROVE  /\ For(c, r.echo)'
         /\ Current(r.echo)' => Shown(r.echo[1], r, seen[r.echo[1]])'
<1> DEFINE q == r.echo
<1>1. q \in Request
  BY DEF Answers
<1>2. For(c, q)'
  BY <1>1, ForStays
<1>3. ASSUME Current(q)' PROVE Shown(q[1], r, seen[q[1]])'
  <2>1. Current(q) /\ seen'[q[1]] = Now(q[1]) /\ Check(q[1])' = Check(q[1])
    BY <1>1, <1>3, SentStays, SeenGrows DEF For
  <2>2. Check(q[1]) = c
    BY <2>1 DEF For, Current, Check
  <2> QED
    BY <1>1, <2>1, <2>2, VouchesFacts DEF Shown, Now
<1> QED
  BY <1>2, <1>3
-----------------------------------------------------------------------------
(* What the probes and their calls keep. *)

\* A check that ends waits for nothing.
LEMMA EndedAsksNothing ==
  ASSUME NEW p \in Probes, NEW f \in SUBSET (1 .. 2), Ended(p, f)
  PROVE  ~Asking(p)'
BY DEF Ended, Asking

\* A check that ends, and no other step, makes a probe leave its check.
LEMMA SameCheck ==
  ASSUME TypeOK, Progress, NEW p \in Probes, Running(p), Running(p)',
         probe'[p].check = probe[p].check
  PROVE  probe'[p].failed = probe[p].failed /\ Check(p)' = Check(p)
<1>1. probe[p] \in Gateways /\ Moves(p)
  BY Types DEF Progress
<1>2. ASSUME NEW f \in SUBSET (1 .. 2), Running(p), Ended(p, f)
      PROVE  FALSE
  BY <1>1, <1>2 DEF Ended, Running, Gateways
<1>3. probe[p].failed \in SUBSET (1 .. 2) /\ probe[p].failed \cup {probe[p].check} \in SUBSET (1 .. 2)
  BY <1>1 DEF Gateways
<1>4. \/ probe'[p] = probe[p]
      \/ \E to \in Places : probe'[p] = [probe[p] EXCEPT !.at = to]
  <2>1. "lost" \in Places
    BY DEF Places
  <2> QED
    BY <1>1, <1>2, <1>3, <2>1, Zenon DEF Moves, At, Running
<1> QED
  BY <1>1, <1>4 DEF Check, Gateways

LEMMA ProbeInvKept ==
  ASSUME TypeOK, ProbeInv, HealthyWasHealthy, Progress, Observe
  PROVE  ProbeInv' /\ HealthyWasHealthy'
<1> SUFFICES ASSUME NEW p \in Probes
    PROVE  /\ At(p, "new")' => probe'[p].check = 1 /\ probe'[p].failed = {} /\ backed'[p] = {}
           /\ Running(p)' => /\ probe'[p].check <= Len(Checks(probe'[p].service))
                             /\ seen'[p] \subseteq Vouches(Check(p)')
                             /\ backed'[p] \subseteq 1 .. (probe'[p].check - 1)
                             /\ 1 .. (probe'[p].check - 1) \subseteq probe'[p].failed \cup backed'[p]
           /\ At(p, "200")' => backed'[p] = DOMAIN Checks(probe'[p].service)
  BY DEF ProbeInv, HealthyWasHealthy, At, Running, Check
<1> DEFINE i == probe[p].check
           n == Len(Checks(probe[p].service))
           same == Running(p) /\ Running(p)' /\ probe'[p].check = i
<1>1. probe[p] \in Gateways /\ Moves(p) /\ Forward(p) /\ probe'[p] \in Gateways
  BY Types DEF Progress
<1>2. /\ seen'[p] = IF same THEN Now(p) ELSE {}
      /\ backed'[p] = IF Running(p) /\ ~same /\ Now(p) = Vouches(Check(p))
                      THEN backed[p] \cup {i} ELSE backed[p]
  BY Zenon DEF Observe, Now
<1>3. n \in 1 .. 2 /\ DOMAIN Checks(probe[p].service) = 1 .. n
  BY <1>1, CheckFacts DEF Gateways
<1>4. CASE same
  <2>1. /\ seen'[p] = Now(p) /\ backed'[p] = backed[p]
        /\ probe'[p].failed = probe[p].failed /\ Check(p)' = Check(p)
        /\ probe'[p].service = probe[p].service
    BY <1>1, <1>2, <1>4, SameCheck DEF Forward, Running, At
  <2>2. ~At(p, "new")' /\ ~At(p, "200")'
    BY <1>4 DEF Running, At
  <2> QED
    BY <1>4, <2>1, <2>2 DEF ProbeInv, Now
<1>5. CASE ~Running(p)
  <2>1. seen'[p] = {} /\ backed'[p] = backed[p]
    BY <1>2, <1>5, Zenon
  <2>2. \/ probe'[p] = probe[p]
        \/ /\ At(p, "new")
           /\ \E s \in Services : probe'[p] = [probe[p] EXCEPT !.at = "check", !.service = s]
    BY <1>1, <1>5 DEF Moves, Running
  <2>3. CASE probe'[p] = probe[p]
    BY <1>5, <2>1, <2>3 DEF ProbeInv, HealthyWasHealthy, At, Running
  <2>4. ASSUME At(p, "new"),
               NEW s \in Services, probe'[p] = [probe[p] EXCEPT !.at = "check", !.service = s]
        PROVE  /\ probe'[p].check = 1 /\ backed'[p] = {} /\ probe'[p].at = "check"
               /\ probe'[p].service = s
    BY <1>1, <2>1, <2>4 DEF ProbeInv, Gateways
  <2>5. \A s \in Services : 1 <= Len(Checks(s))
    BY CheckFacts
  <2>6. ~At(p, "new") => probe'[p] = probe[p]
    BY <2>2
  <2>7. CASE At(p, "new") /\ probe'[p] # probe[p]
    <3>1. PICK s \in Services : probe'[p] = [probe[p] EXCEPT !.at = "check", !.service = s]
      BY <2>2, <2>7
    <3>2. /\ probe'[p].check = 1 /\ backed'[p] = {} /\ probe'[p].at = "check"
          /\ probe'[p].service = s /\ 1 <= Len(Checks(s))
      BY <2>4, <2>5, <2>7, <3>1
    <3> QED
      BY <2>1, <3>2 DEF At
  <2> QED
    BY <2>3, <2>6, <2>7
<1>6. CASE Running(p) /\ Running(p)' /\ ~same
  <2>1. seen'[p] = {}
    BY <1>2, <1>6, Zenon
  <2>2. ~At(p, "new")' /\ ~At(p, "200")'
    BY <1>6 DEF Running, At
  <2>3. \/ Now(p) = Vouches(Check(p)) /\ Ended(p, probe[p].failed)
        \/ Ended(p, probe[p].failed \cup {i})
    BY <1>1, <1>6 DEF Moves, Gateways, Running, At
  <2>4. i # n /\ probe'[p].check = i + 1 /\ probe'[p].service = probe[p].service
    BY <1>1, <1>6, <2>3 DEF Ended
  <2>5. i \in 1 .. 2 /\ i <= n
    BY <1>1, <1>6 DEF Gateways, ProbeInv
  <2>6. backed'[p] \subseteq backed[p] \cup {i} /\ backed[p] \subseteq backed'[p]
    BY <1>2, Zenon
  <2>7. probe[p].failed \cup backed[p] \cup {i} \subseteq probe'[p].failed \cup backed'[p]
    <3>1. CASE Now(p) = Vouches(Check(p)) /\ Ended(p, probe[p].failed)
      <4>1. probe'[p].failed = probe[p].failed
        BY <3>1 DEF Ended
      <4>2. backed'[p] = backed[p] \cup {i}
        BY <1>2, <1>6, <3>1, Zenon
      <4> QED
        BY <4>1, <4>2
    <3>2. CASE Ended(p, probe[p].failed \cup {i})
      <4>1. probe'[p].failed = probe[p].failed \cup {i}
        BY <3>2 DEF Ended
      <4> QED
        BY <2>6, <4>1
    <3> QED
      BY <2>3, <3>1, <3>2
  <2>8. backed[p] \subseteq 1 .. (i - 1) /\ 1 .. (i - 1) \subseteq probe[p].failed \cup backed[p]
    BY <1>6 DEF ProbeInv
  <2>9. 1 .. (probe'[p].check - 1) = (1 .. (i - 1)) \cup {i}
    BY <2>4, <2>5
  <2>10. probe'[p].check <= Len(Checks(probe'[p].service))
    BY <1>3, <2>4, <2>5
  <2> QED
    BY <2>1, <2>2, <2>6, <2>7, <2>8, <2>9, <2>10
<1>7. CASE Running(p) /\ ~Running(p)' /\ At(p, "200")'
  <2>1. Now(p) = Vouches(Check(p)) /\ Ended(p, probe[p].failed) /\ probe[p].failed = {}
    <3>1. ~Ended(p, probe[p].failed \cup {i})
      <4>1. probe[p].failed \cup {i} # {}
        OBVIOUS
      <4> QED
        BY <1>7, <4>1 DEF Ended, At
    <3>2. ~\E to \in Places : Asking(p)' /\ probe'[p] = [probe[p] EXCEPT !.at = to]
      BY <1>7 DEF At, Asking
    <3>3. probe'[p] # probe[p] /\ probe'[p] # [probe[p] EXCEPT !.at = "lost"]
      BY <1>1, <1>7 DEF At, Running, Gateways
    <3>4. Now(p) = Vouches(Check(p)) /\ Ended(p, probe[p].failed)
      BY <1>1, <1>7, <3>1, <3>2, <3>3 DEF Moves, At, Running
    <3> QED
      BY <1>7, <3>4 DEF Ended, At
  <2>2. i = n /\ probe'[p].service = probe[p].service
    BY <1>7, <2>1 DEF Ended, At
  <2>3. backed'[p] = backed[p] \cup {i}
    BY <1>2, <1>7, <2>1, Zenon
  <2>4. backed[p] \subseteq 1 .. (i - 1) /\ 1 .. (i - 1) \subseteq backed[p]
    BY <1>7, <2>1 DEF ProbeInv
  <2>5. backed'[p] = 1 .. n
    <3>1. i \in 1 .. 2
      BY <1>1 DEF Gateways
    <3>2. (1 .. (i - 1)) \cup {i} = 1 .. i
      BY <3>1
    <3>3. backed[p] = 1 .. (i - 1)
      BY <2>4
    <3> HIDE DEF i, n
    <3> QED
      BY <2>2, <2>3, <3>2, <3>3
  <2>6. ~At(p, "new")'
    BY <1>7 DEF At
  <2> QED
    BY <1>3, <1>7, <2>2, <2>5, <2>6
<1>8. CASE Running(p) /\ ~Running(p)' /\ ~At(p, "200")'
  BY <1>1, <1>8 DEF Forward, Running, At
<1> QED
  BY <1>4, <1>5, <1>6, <1>7, <1>8, Zenon

\* The reply that a call holds is one of the replies to its check.
CallShape(p) ==
  Asking(p)' =>
    \/ /\ At(p, "check") /\ Check(p) \in Consumers /\ "broker" \in up
       /\ call'[p].reply = NoReply
    \/ /\ Asking(p)
       /\ \/ call'[p].reply = call[p].reply
          \/ call'[p].reply \in {r \in replies : r.echo[1] = p}

LEMMA CallInvKept ==
  ASSUME TypeOK, RepliesInv, CallInv, ProbeInv, Progress, Observe,
         \A p \in Probes : CallShape(p)
  PROVE  CallInv'
<1> SUFFICES ASSUME NEW p \in Probes, Asking(p)'
    PROVE  /\ Check(p)' \in Consumers /\ "broker" \in seen'[p]
           /\ call'[p].reply.echo = <<p, probe'[p].check>> => Shown(p, call[p].reply, seen[p])'
  BY DEF CallInv, Asking, Check
<1>1. probe[p] \in Gateways /\ Moves(p) /\ Forward(p) /\ probe'[p] \in Gateways /\ CallShape(p)
  BY Types DEF Progress
<1>2. /\ Running(p) /\ Running(p)' /\ probe'[p].check = probe[p].check
      /\ probe'[p].service = probe[p].service
  <2>1. Running(p)' /\ Running(p)
    BY <1>1 DEF CallShape, Asking, Running, At
  <2>2. ASSUME NEW f \in SUBSET (1 .. 2), Ended(p, f) PROVE FALSE
    BY <2>2, EndedAsksNothing
  <2>3. probe[p].failed \in SUBSET (1 .. 2) /\ probe[p].failed \cup {probe[p].check} \in SUBSET (1 .. 2)
    BY <1>1 DEF Gateways
  <2>4. \/ probe'[p] = probe[p]
        \/ \E to \in Places : probe'[p] = [probe[p] EXCEPT !.at = to]
    <3>1. "lost" \in Places /\ ~At(p, "new")
      BY <2>1 DEF Places, At, Running
    <3> QED
      BY <1>1, <2>2, <2>3, <3>1, Zenon DEF Moves
  <2> QED
    BY <1>1, <2>1, <2>4 DEF Gateways
<1>3. seen'[p] = Now(p) /\ Check(p)' = Check(p)
  BY <1>2 DEF Observe, Now, Check
<1>4. CASE /\ At(p, "check") /\ Check(p) \in Consumers /\ "broker" \in up
           /\ call'[p].reply = NoReply
  <2>1. "broker" \in seen'[p]
    BY <1>3, <1>4, VouchesFacts DEF Now
  <2>2. call'[p].reply.echo # <<p, probe'[p].check>>
    BY <1>4 DEF NoReply
  <2> QED
    BY <1>3, <1>4, <2>1, <2>2
<1>5. ASSUME Asking(p), NEW r, call'[p].reply = r, r.echo = <<p, probe[p].check>>,
             Shown(p, r, seen[p])
      PROVE  Shown(p, r, seen[p])'
  BY <1>3, <1>5 DEF Shown, Now
<1>6. CASE Asking(p)
  <2>1. Check(p)' \in Consumers /\ "broker" \in seen'[p]
    BY <1>3, <1>6 DEF CallInv, Now
  <2>2. ASSUME call'[p].reply.echo = <<p, probe'[p].check>>
        PROVE  Shown(p, call'[p].reply, seen[p])
    <3>1. CASE call'[p].reply = call[p].reply
      BY <1>2, <1>6, <2>2, <3>1 DEF CallInv
    <3>2. CASE call'[p].reply \in replies
      <4>1. Current(call'[p].reply.echo) /\ call'[p].reply.echo[1] = p
        BY <1>2, <2>2 DEF Current
      <4> QED
        BY <3>2, <4>1 DEF RepliesInv
    <3> QED
      BY <1>1, <1>6, <3>1, <3>2 DEF CallShape, Asking, At
  <2> QED
    BY <1>2, <1>5, <1>6, <2>1, <2>2
<1> QED
  BY <1>1, <1>4, <1>6 DEF CallShape
-----------------------------------------------------------------------------
(* What a step does to the queues, the consumers and the replies. *)

RequestShape ==
  /\ requests' \in [Consumers -> Seq(Request)]
  /\ \A c \in Consumers : \A k \in DOMAIN requests'[c] :
       For(c, requests'[c][k]) \/ For(c, requests[c][k])'

Sound(h) ==
  /\ h \in Handlers /\ For(h.by, h.request)
  /\ Current(h.request) => Found(h, seen[h.request[1]] \cup up)

ServingShape == IsFiniteSet(serving') /\ \A h \in serving' : Sound(h)

RepliesShape ==
  \A r \in replies' :
    /\ r \in Answers /\ \E c \in Consumers : For(c, r.echo)
    /\ Current(r.echo) => Shown(r.echo[1], r, seen[r.echo[1]] \cup up)

ProbeShape ==
  /\ probe' \in [Probes -> Gateways] /\ call' \in [Probes -> Calls]
  /\ \A p \in Probes : Moves(p) /\ CallShape(p)

OtherShape ==
  /\ up' \subseteq Things /\ channel' \subseteq Consumers /\ channel' \subseteq up'
  /\ work' \in [Consumers -> {"waiting", "unacked", "stale", "acked"}]
  /\ faults' \in 0 .. MaxFaults /\ raised' \in BOOLEAN

Shape == RequestShape /\ ServingShape /\ RepliesShape /\ ProbeShape /\ OtherShape

LEMMA ShapeKeepsInv ==
  ASSUME IInv, Shape, Observe
  PROVE  IInv'
<1>1. TypeOK /\ ProbeInv /\ HealthyWasHealthy /\ CallInv /\ RepliesInv
  BY DEF IInv
<1>2. Progress
  BY <1>1, MovesForward DEF Shape, ProbeShape, Progress
<1>3. TypeOK'
  <2>1. replies' \subseteq Answers /\ serving' \subseteq Handlers
    BY DEF Shape, RepliesShape, ServingShape, Sound
  <2>2. /\ up' \subseteq Things /\ probe' \in [Probes -> Gateways]
        /\ call' \in [Probes -> Calls] /\ requests' \in [Consumers -> Seq(Request)]
        /\ channel' \subseteq Consumers
        /\ work' \in [Consumers -> {"waiting", "unacked", "stale", "acked"}]
        /\ faults' \in 0 .. MaxFaults /\ raised' \in BOOLEAN
    BY Zenon DEF Shape, RequestShape, ProbeShape, OtherShape
  <2> QED
    BY <2>1, <2>2, Types, Zenon DEF TypeOK, Things, Gateways, Places, Calls, Answers, Handlers
<1>4. RequestInv'
  <2> SUFFICES ASSUME NEW c \in Consumers, NEW k \in DOMAIN requests'[c]
      PROVE  For(c, requests[c][k])'
    BY DEF RequestInv
  <2>1. requests'[c][k] \in Request
    BY ElementOfSeq, LenProperties DEF Shape, RequestShape
  <2>2. PICK r \in Request : r = requests'[c][k]
    BY <2>1
  <2>3. For(c, r) => For(c, r)'
    BY <1>1, <1>2, ForStays
  <2> QED
    BY <2>2, <2>3 DEF Shape, RequestShape, For, Sent, At
<1>5. ServingInv'
  <2> SUFFICES ASSUME NEW h \in serving'
      PROVE  /\ For(h.by, h.request)'
             /\ Current(h.request)' => Found(h, seen'[h.request[1]])
    BY DEF ServingInv, Found
  <2> QED
    BY <1>1, <1>2, FoundStays DEF Shape, ServingShape, Sound
<1>6. RepliesInv'
  <2> SUFFICES ASSUME NEW r \in replies'
      PROVE  /\ \E c \in Consumers : For(c, r.echo)'
             /\ Current(r.echo)' => Shown(r.echo[1], r, seen[r.echo[1]])'
    BY DEF RepliesInv
  <2>1. PICK c \in Consumers : For(c, r.echo)
    BY DEF Shape, RepliesShape
  <2> QED
    BY <1>1, <1>2, <2>1, ShownStays DEF Shape, RepliesShape
<1>7. CallInv'
  BY <1>1, <1>2, CallInvKept DEF Shape, ProbeShape
<1>8. ProbeInv' /\ HealthyWasHealthy'
  BY <1>1, <1>2, ProbeInvKept
<1>9. ChannelInv'
  BY DEF ChannelInv, Shape, OtherShape, ServingShape
<1> QED
  BY <1>3, <1>4, <1>5, <1>6, <1>7, <1>8, <1>9 DEF IInv

LEMMA RequestsSame ==
  ASSUME IInv, UNCHANGED requests
  PROVE  RequestShape
BY Types DEF IInv, RequestInv, RequestShape

LEMMA ServingFewer ==
  ASSUME IInv, serving' \subseteq serving
  PROVE  ServingShape
<1>1. IsFiniteSet(serving')
  BY FS_Subset DEF IInv, ChannelInv
<1> QED
  BY <1>1, Types DEF IInv, ServingInv, ServingShape, Sound, Found

LEMMA SoundNow ==
  ASSUME IInv
  PROVE  IsFiniteSet(serving) /\ \A h \in serving : Sound(h)
BY Types DEF IInv, ChannelInv, ServingInv, Sound, Found

LEMMA RepliesFewer ==
  ASSUME IInv, replies' \subseteq replies
  PROVE  RepliesShape
BY Types DEF IInv, RepliesInv, RepliesShape, Shown

LEMMA ProbesSame ==
  ASSUME IInv, UNCHANGED probes
  PROVE  ProbeShape
<1>1. UNCHANGED probe /\ UNCHANGED call
  BY DEF probes
<1> QED
  BY <1>1, Types DEF IInv, ProbeShape, Moves, CallShape, Asking

\* The images of a finite set of handlers that the consumers use.
LEMMA FiniteImage ==
  ASSUME NEW S, IsFiniteSet(S), NEW f, NEW T, f \in Surjection(S, T)
  PROVE  IsFiniteSet(T)
BY FS_Surjection

LEMMA SetToSeqFacts ==
  ASSUME NEW S, IsFiniteSet(S)
  PROVE  SetToSeq(S) \in Seq(S)
<1>1. Cardinality(S) \in Nat /\ ExistsBijection(1 .. Cardinality(S), S)
  BY FS_CardinalityType
<1>2. \E f \in [1 .. Cardinality(S) -> S] : IsInjective(f)
  BY <1>1 DEF ExistsBijection, Bijection, Injection
<1>3. SetToSeq(S) \in [1 .. Cardinality(S) -> S]
  BY <1>2 DEF SetToSeq
<1> QED
  BY <1>1, <1>3

LEMMA RequeuedFacts ==
  ASSUME IInv, NEW cs
  PROVE  /\ Requeued(cs) \in [Consumers -> Seq(Request)]
         /\ \A c \in Consumers : \A k \in DOMAIN Requeued(cs)[c] : For(c, Requeued(cs)[c][k])
<1>1. requests \in [Consumers -> Seq(Request)] /\ serving \subseteq Handlers
  BY Types DEF IInv
<1> SUFFICES ASSUME NEW c \in Consumers
    PROVE  /\ Requeued(cs)[c] \in Seq(Request)
           /\ \A k \in DOMAIN Requeued(cs)[c] : For(c, Requeued(cs)[c][k])
  BY DEF Requeued
<1> DEFINE S == {s \in serving : s.by = c /\ s.live}
           T == {h.request : h \in S}
           old == requests[c]
<1>2. T \subseteq Request /\ \A r \in T : For(c, r)
  BY <1>1 DEF IInv, ServingInv, Handlers
<1>3. SetToSeq(T) \in Seq(T)
  <2>1. IsFiniteSet(S)
    BY FS_Subset DEF IInv, ChannelInv
  <2>2. [h \in S |-> h.request] \in Surjection(S, T)
    BY DEF Surjection
  <2> QED
    BY <2>1, <2>2, FiniteImage, SetToSeqFacts
<1>4. PICK front \in Seq(T) : front = SetToSeq(T)
  BY <1>3
<1>5. old \in Seq(Request) /\ \A k \in DOMAIN old : For(c, old[k])
  BY <1>1 DEF IInv, RequestInv
<1> HIDE DEF T, old
<1>6. front \in Seq(Request) /\ \A k \in DOMAIN front : For(c, front[k])
  BY <1>2, <1>4
<1>7. /\ front \o old \in Seq(Request)
      /\ \A k \in DOMAIN (front \o old) : For(c, (front \o old)[k])
  BY <1>5, <1>6
<1>8. Requeued(cs)[c] = IF c \in cs THEN front \o old ELSE old
  BY <1>4 DEF Requeued, T, old
<1> QED
  BY <1>5, <1>7, <1>8
-----------------------------------------------------------------------------
(* One lemma for each group of steps. *)

\* What there is belongs to the types, and the names of the consumers are
\* none of "db", "broker" and the queues.
LEMMA ThingFacts ==
  /\ "db" \notin Consumers /\ "broker" \notin Consumers
  /\ Consumers \subseteq Things /\ {"db", "broker"} \subseteq Things
  /\ \A c \in Consumers :
       /\ WorkQueue(c) \in Things /\ HealthQueue(c) \in Things
       /\ WorkQueue(c) \notin Consumers /\ HealthQueue(c) \notin Consumers
<1>1. "db" \notin Consumers /\ "broker" \notin Consumers
  BY DEF Consumers
<1>2. \A c \in Consumers : WorkQueue(c) \notin Consumers /\ HealthQueue(c) \notin Consumers
  BY DEF Consumers, WorkQueue, HealthQueue
<1> QED
  BY <1>1, <1>2 DEF Things

\* NewCall and the other values of a call.
LEMMA CallTypes ==
  /\ NewCall \in Calls
  /\ [NewCall EXCEPT !.connected = TRUE, !.pending = TRUE] \in Calls
  /\ \A c \in Calls :
       /\ [c EXCEPT !.connected = FALSE] \in Calls
       /\ [c EXCEPT !.pending = FALSE] \in Calls
       /\ [c EXCEPT !.late = TRUE, !.future = IF @ = "wait" THEN "cancelled" ELSE @] \in Calls
       /\ \A r \in Answers : [c EXCEPT !.pending = FALSE, !.future = "set", !.reply = r] \in Calls
<1>1. \A c \in Calls : \A b \in BOOLEAN :
        /\ [c EXCEPT !.connected = b] \in Calls
        /\ [c EXCEPT !.pending = b] \in Calls
        /\ [c EXCEPT !.late = b, !.future = IF @ = "wait" THEN "cancelled" ELSE @] \in Calls
        /\ \A r \in Answers : [c EXCEPT !.pending = b, !.future = "set", !.reply = r] \in Calls
        /\ [c EXCEPT !.connected = b, !.pending = b] \in Calls
  BY DEF Calls
<1>2. \A b, d \in BOOLEAN : [connected |-> b, pending |-> b, future |-> "wait", reply |-> NoReply, late |-> d] \in Calls
  BY DEF Calls
<1>3. NewCall \in Calls
  BY <1>2, Zenon DEF NewCall
<1> QED
  BY <1>1, <1>3, Zenon

\* A check ends: nothing but the probe and its call and replies changes.
LEMMA CheckEndsShape ==
  ASSUME IInv, NEW p \in Probes, Running(p), NEW f \in SUBSET (1 .. 2),
         \/ Now(p) = Vouches(Check(p)) /\ f = probe[p].failed
         \/ f = probe[p].failed \cup {probe[p].check},
         probe' = [probe EXCEPT
           ![p].at = IF probe[p].check # Len(Checks(probe[p].service)) THEN "check"
                     ELSE IF f = {} THEN "200" ELSE "503",
           ![p].check = IF probe[p].check = Len(Checks(probe[p].service))
                        THEN probe[p].check ELSE probe[p].check + 1,
           ![p].failed = f],
         call' = [call EXCEPT ![p] = NewCall],
         replies' \subseteq replies,
         UNCHANGED <<up, consumers, faults, raised>>
  PROVE  Shape
<1>1. /\ TypeOK /\ ProbeInv /\ probe \in [Probes -> Gateways] /\ call \in [Probes -> Calls]
      /\ UNCHANGED <<requests, serving, channel, work>>
  BY Types DEF IInv, consumers
<1>2. Ended(p, f)
  <2>1. probe[p] \in Gateways
    BY <1>1
  <2> QED
    BY <1>1, <2>1 DEF Ended, Gateways
<1>3. Moves(p)
  BY <1>2 DEF Moves
<1>4. \A q \in Probes \ {p} : probe'[q] = probe[q] /\ call'[q] = call[q] /\ Moves(q) /\ CallShape(q)
  BY <1>1 DEF Moves, CallShape, Asking
<1>5. ~Asking(p)'
  BY <1>2, EndedAsksNothing
<1>6. ProbeShape
  <2>1. probe'[p] \in Gateways
    BY <1>1, <1>3, MovesForward
  <2>2. probe' \in [Probes -> Gateways]
    BY <1>1, <1>4, <2>1
  <2>3. call' \in [Probes -> Calls]
    BY <1>1, CallTypes
  <2> QED
    BY <1>3, <1>4, <1>5, <2>2, <2>3 DEF ProbeShape, CallShape
<1>7. OtherShape
  <2>1. /\ up \subseteq Things /\ channel \subseteq Consumers /\ channel \subseteq up
        /\ work \in [Consumers -> {"waiting", "unacked", "stale", "acked"}]
        /\ faults \in 0 .. MaxFaults /\ raised \in BOOLEAN
    BY Types, Zenon DEF IInv, ChannelInv
  <2> QED
    BY <1>1, <2>1, Zenon DEF OtherShape
<1> QED
  BY <1>1, <1>6, <1>7, RequestsSame, ServingFewer, RepliesFewer DEF Shape

LEMMA CheckFails ==
  ASSUME IInv, NEW p \in Probes, Running(p), CheckEnds(p, FALSE)
  PROVE  Shape
<1>1. probe[p] \in Gateways
  BY Types DEF IInv
<1> DEFINE f == probe[p].failed \cup {probe[p].check}
<1>2. f \in SUBSET (1 .. 2)
  BY <1>1 DEF Gateways
<1> QED
  BY <1>2, CheckEndsShape DEF CheckEnds

LEMMA CheckPasses ==
  ASSUME IInv, NEW p \in Probes, Running(p), CheckEnds(p, TRUE), Vouches(Check(p)) \subseteq Now(p)
  PROVE  Shape
<1>1. probe[p] \in Gateways /\ seen[p] \subseteq Vouches(Check(p))
  BY Types DEF IInv, ProbeInv
<1> DEFINE f == probe[p].failed
<1>2. f \in SUBSET (1 .. 2) /\ probe[p].failed \cup {} = f
  BY <1>1 DEF Gateways
<1>3. Now(p) = Vouches(Check(p))
  BY <1>1 DEF Now
<1> QED
  BY <1>2, <1>3, CheckEndsShape DEF CheckEnds

LEMMA ProbeChecks ==
  ASSUME IInv, NEW p \in Probes, db_check(p) \/ broker_check(p)
  PROVE  Shape
<1>1. Running(p)
  BY DEF db_check, broker_check, At, Running
<1>2. CASE db_check(p)
  <2>1. CASE "db" \in up
    <3>1. CheckEnds(p, TRUE)
      BY <1>2, <2>1 DEF db_check, CheckEnds
    <3>2. Vouches(Check(p)) = {"db"}
      BY <1>2, VouchesFacts DEF db_check
    <3> QED
      BY <1>1, <2>1, <3>1, <3>2, CheckPasses DEF Now
  <2>2. CASE "db" \notin up
    <3>1. CheckEnds(p, FALSE)
      BY <1>2, <2>2 DEF db_check, CheckEnds
    <3> QED
      BY <1>1, <3>1, CheckFails
  <2> QED
    BY <2>1, <2>2
<1>3. CASE broker_check(p)
  <2>1. CASE {"broker", "matches.build"} \subseteq up
    <3>1. CheckEnds(p, TRUE)
      BY <1>3, <2>1 DEF broker_check, CheckEnds
    <3>2. Vouches(Check(p)) = {"broker", "matches.build"}
      BY <1>3, VouchesFacts DEF broker_check
    <3> QED
      BY <1>1, <2>1, <3>1, <3>2, CheckPasses DEF Now
  <2>2. CASE ~({"broker", "matches.build"} \subseteq up)
    <3>1. CheckEnds(p, FALSE)
      BY <1>3, <2>2 DEF broker_check, CheckEnds
    <3> QED
      BY <1>1, <3>1, CheckFails
  <2> QED
    BY <2>1, <2>2
<1> QED
  BY <1>2, <1>3

\* The verdict on a reply that names this very check.
LEMMA ResumeShape ==
  ASSUME IInv, NEW p \in Probes, Resume(p)
  PROVE  Shape
<1>1. Running(p) /\ Asking(p)
  BY DEF Resume, At, Running, Asking
<1>2. CASE ~call[p].late /\ Verdict(<<p, probe[p].check>>, call[p].reply)
  <2>1. CheckEnds(p, TRUE)
    BY <1>2 DEF Resume, CheckEnds
  <2>2. /\ Check(p) \in Consumers /\ "broker" \in seen[p]
        /\ Shown(p, call[p].reply, seen[p])
    BY <1>1, <1>2 DEF IInv, CallInv, Verdict
  <2>3. {"db", "broker", Check(p), PublishQueue(Check(p))} \subseteq seen[p]
    BY <1>2, <2>2 DEF Shown, Verdict
  <2>4. Vouches(Check(p)) = {"db", "broker", Check(p), PublishQueue(Check(p))}
    BY <2>2, VouchesFacts
  <2> QED
    BY <1>1, <2>1, <2>3, <2>4, CheckPasses DEF Now
<1>3. CASE ~(~call[p].late /\ Verdict(<<p, probe[p].check>>, call[p].reply))
  <2>1. CheckEnds(p, FALSE)
    BY <1>3 DEF Resume, CheckEnds
  <2> QED
    BY <1>1, <2>1, CheckFails
<1> QED
  BY <1>2, <1>3

LEMMA OtherTypes ==
  ASSUME IInv
  PROVE  /\ up \subseteq Things /\ channel \subseteq Consumers /\ channel \subseteq up
         /\ work \in [Consumers -> {"waiting", "unacked", "stale", "acked"}]
         /\ faults \in 0 .. MaxFaults /\ raised \in BOOLEAN
BY Types, Zenon DEF IInv, ChannelInv

\* The steps that move a probe within its check, or change its call only.
LEMMA WithinCheck ==
  ASSUME IInv, NEW p \in Probes, NEW to \in Places, NEW c \in Calls,
         \/ to = probe[p].at
         \/ probe[p].at \in {"check", "publish"} /\ to \in {"publish", "wait"},
         probe' = [probe EXCEPT ![p].at = to],
         call' = [call EXCEPT ![p] = c],
         to \in {"publish", "wait"} =>
           \/ /\ At(p, "check") /\ Check(p) \in Consumers /\ "broker" \in up
              /\ c.reply = NoReply
           \/ /\ Asking(p)
              /\ c.reply = call[p].reply \/ c.reply \in {r \in replies : r.echo[1] = p}
  PROVE  ProbeShape
<1>1. probe \in [Probes -> Gateways] /\ call \in [Probes -> Calls]
  BY Types DEF IInv
<1>2. probe[p] \in Gateways /\ probe'[p] = [probe[p] EXCEPT !.at = to] /\ call'[p] = c
  BY <1>1
<1>3. probe' \in [Probes -> Gateways] /\ call' \in [Probes -> Calls]
  BY <1>1 DEF Gateways
<1>4. \A q \in Probes \ {p} : Moves(q) /\ CallShape(q)
  BY <1>1 DEF Moves, CallShape, Asking
<1>5. Moves(p)
  <2>1. CASE to = probe[p].at
    BY <1>2, <2>1 DEF Moves, Gateways
  <2>2. CASE probe[p].at \in {"check", "publish"} /\ to \in {"publish", "wait"}
    <3>1. probe'[p].at = to
      BY <1>2 DEF Gateways
    <3> QED
      BY <1>2, <2>2, <3>1 DEF Moves, Asking
  <2> QED
    BY <2>1, <2>2
<1>6. CallShape(p)
  <2>1. probe'[p].at = to
    BY <1>2 DEF Gateways
  <2> QED
    BY <1>2, <2>1 DEF CallShape, Asking
<1> QED
  BY <1>3, <1>4, <1>5, <1>6 DEF ProbeShape

LEMMA OtherSame ==
  ASSUME IInv, UNCHANGED <<up, channel, work, faults, raised>>
  PROVE  OtherShape
BY OtherTypes, Zenon DEF OtherShape

LEMMA GetShape ==
  ASSUME IInv, NEW p \in Probes, NEW s \in Services, Get(p, s)
  PROVE  Shape
<1>1. probe \in [Probes -> Gateways] /\ call \in [Probes -> Calls]
  BY Types DEF IInv
<1>2. /\ probe' = [probe EXCEPT ![p].at = "check", ![p].service = s] /\ At(p, "new")
      /\ UNCHANGED <<up, call, requests, serving, channel, work, replies, faults, raised>>
  BY DEF Get, consumers
<1>3. probe[p] \in Gateways /\ probe'[p] = [probe[p] EXCEPT !.at = "check", !.service = s]
  BY <1>1, <1>2
<1>4. Moves(p) /\ CallShape(p)
  <2>1. probe'[p].at = "check"
    BY <1>3 DEF Gateways
  <2> QED
    BY <1>2, <1>3, <2>1 DEF Moves, CallShape, Asking
<1>5. \A q \in Probes \ {p} : Moves(q) /\ CallShape(q)
  BY <1>1, <1>2 DEF Moves, CallShape, Asking
<1>6. probe' \in [Probes -> Gateways]
  BY <1>1, <1>2, <1>3 DEF Gateways, Places
<1> QED
  BY <1>1, <1>2, <1>4, <1>5, <1>6, RequestsSame, ServingFewer, RepliesFewer, OtherSame
  DEF Shape, ProbeShape

LEMMA AppendFacts ==
  ASSUME NEW S, NEW s \in Seq(S), NEW x \in S
  PROVE  /\ Append(s, x) \in Seq(S)
         /\ \A k \in DOMAIN Append(s, x) :
              (k \in DOMAIN s /\ Append(s, x)[k] = s[k]) \/ Append(s, x)[k] = x
OBVIOUS

LEMMA ConnectShape ==
  ASSUME IInv, NEW p \in Probes, Connect(p)
  PROVE  Shape
<1>1. CASE "broker" \notin up
  BY <1>1, CheckFails DEF Connect, At, Running
<1>2. CASE "broker" \in up
  <2> DEFINE c == [NewCall EXCEPT !.connected = TRUE, !.pending = TRUE]
  <2>1. /\ probe \in [Probes -> Gateways] /\ call \in [Probes -> Calls]
        /\ requests \in [Consumers -> Seq(Request)]
    BY Types DEF IInv
  <2>2. PICK to \in Consumers, r \in {<<p, probe[p].check>>} : to = Check(p)
    BY DEF Connect
  <2>3. /\ At(p, "check") /\ Check(p) = to
        /\ probe' = [probe EXCEPT ![p].at = "publish"] /\ call' = [call EXCEPT ![p] = c]
        /\ requests' = [requests EXCEPT ![to] = Append(@, r)] \/ requests' = requests
        /\ UNCHANGED <<up, serving, channel, work, replies, faults, raised>>
    BY <1>2, <2>2 DEF Connect
  <2>4. c \in Calls /\ c.reply = NoReply
    <3>1. c.reply = NewCall.reply
      BY DEF NewCall
    <3> QED
      BY <3>1, CallTypes DEF NewCall
  <2>5. ProbeShape
    <3> HIDE DEF c
    <3>1. "publish" \in Places
      BY DEF Places
    <3>2. probe[p].at = "check"
      BY <2>3 DEF At
    <3> QED
      BY <1>2, <2>2, <2>3, <2>4, <3>1, <3>2, WithinCheck
  <2>6. r \in Request /\ For(to, r)'
    <3>1. /\ probe'[p].at = "publish" /\ probe'[p].check = probe[p].check
          /\ probe'[p].service = probe[p].service /\ probe[p].check \in 1 .. 2
      BY <2>1, <2>3 DEF Gateways
    <3>2. r \in Request /\ Sent(r)'
      BY <2>2, <3>1 DEF Request, Sent, At
    <3> QED
      BY <2>2, <3>1, <3>2 DEF For, Check
  <2>7. RequestShape
    <3>1. \A d \in Consumers : \A k \in DOMAIN requests[d] : For(d, requests[d][k])
      BY DEF IInv, RequestInv
    <3>2. CASE requests' = requests
      BY <3>2, RequestsSame
    <3>3. CASE requests' = [requests EXCEPT ![to] = Append(@, r)]
      <4>1. requests' \in [Consumers -> Seq(Request)]
        BY <2>1, <2>6, <3>3
      <4>2. ASSUME NEW d \in Consumers, NEW k \in DOMAIN requests'[d]
            PROVE  For(d, requests'[d][k]) \/ For(d, requests[d][k])'
        <5>1. CASE d = to
          <6>1. requests[to] \in Seq(Request) /\ requests'[d] = Append(requests[to], r)
            BY <2>1, <3>3, <5>1
          <6>2. (k \in DOMAIN requests[to] /\ requests'[d][k] = requests[to][k])
                \/ requests'[d][k] = r
            BY <2>6, <4>2, <6>1, AppendFacts
          <6>3. ASSUME requests'[d][k] = r PROVE For(d, requests[d][k])'
            BY <2>6, <5>1, <6>3 DEF For, Sent, At
          <6> QED
            BY <3>1, <5>1, <6>2, <6>3
        <5>2. CASE d # to
          BY <2>1, <3>1, <3>3, <4>2, <5>2
        <5> QED
          BY <5>1, <5>2
      <4> QED
        BY <4>1, <4>2 DEF RequestShape
    <3> QED
      BY <2>3, <3>2, <3>3
  <2> QED
    BY <2>3, <2>5, <2>7, ServingFewer, RepliesFewer, OtherSame DEF Shape
<1> QED
  BY <1>1, <1>2

\* Confirmed, PublishFails and TimerFires.
LEMMA CallShapes ==
  ASSUME IInv, NEW p \in Probes, Confirmed(p) \/ PublishFails(p) \/ TimerFires(p)
  PROVE  Shape
<1>1. /\ probe \in [Probes -> Gateways] /\ call \in [Probes -> Calls]
      /\ probe[p] \in Gateways /\ call[p] \in Calls
  BY Types DEF IInv
<1>2. CASE PublishFails(p)
  BY <1>2, CheckFails DEF PublishFails, At, Running
<1>3. CASE Confirmed(p)
  <2>1. /\ probe' = [probe EXCEPT ![p].at = "wait"] /\ call' = [call EXCEPT ![p] = call[p]]
        /\ UNCHANGED <<up, requests, serving, channel, work, replies, faults, raised>>
    BY <1>1, <1>3 DEF Confirmed, consumers
  <2>2. probe[p].at = "publish" /\ "wait" \in Places /\ Asking(p)
    BY <1>3 DEF Confirmed, At, Places, Asking
  <2>3. ProbeShape
    BY <1>1, <2>1, <2>2, WithinCheck
  <2> QED
    BY <2>1, <2>3, RequestsSame, ServingFewer, RepliesFewer, OtherSame DEF Shape
<1>4. CASE TimerFires(p)
  <2> DEFINE c == [call[p] EXCEPT !.late = TRUE,
                                  !.future = IF @ = "wait" THEN "cancelled" ELSE @]
  <2>1. c \in Calls
    BY <1>1, CallTypes
  <2>2. c.reply = call[p].reply
    BY <1>1 DEF Calls
  <2>3. call' = [call EXCEPT ![p] = c]
    BY <1>4 DEF TimerFires
  <2>4. /\ probe' = [probe EXCEPT ![p].at = "wait"]
        /\ UNCHANGED <<up, requests, serving, channel, work, replies, faults, raised>>
    BY <1>1, <1>4 DEF TimerFires, consumers, Gateways, At
  <2>5. probe[p].at = "wait" /\ "wait" \in Places /\ Asking(p)
    BY <1>4 DEF TimerFires, At, Places, Asking
  <2> HIDE DEF c
  <2>6. ProbeShape
    BY <1>1, <2>1, <2>2, <2>3, <2>4, <2>5, WithinCheck
  <2> QED
    BY <2>4, <2>6, RequestsSame, ServingFewer, RepliesFewer, OtherSame DEF Shape
<1> QED
  BY <1>2, <1>3, <1>4

\* A reply is taken; a future that is done gets no result.
LEMMA OnReplyShape ==
  ASSUME IInv, NEW p \in Probes, NEW r \in replies, OnReply(p, r)
  PROVE  Shape /\ UNCHANGED raised
<1>1. /\ probe \in [Probes -> Gateways] /\ call \in [Probes -> Calls]
      /\ probe[p] \in Gateways /\ call[p] \in Calls /\ r \in Answers
  BY Types DEF IInv
<1>2. /\ UNCHANGED <<up, probe, requests, serving, channel, work, faults>>
      /\ replies' \subseteq replies /\ r.echo[1] = p
  BY DEF OnReply, consumers
<1>3. UNCHANGED raised
  <2>1. raised' = raised \/ (SetResult(p, r) /\ call[p].future = "wait")
    BY DEF OnReply
  <2>2. SetResult(p, r) /\ call[p].future = "wait" => raised' = (raised \/ FALSE)
    BY DEF SetResult
  <2>3. raised \in BOOLEAN
    BY OtherTypes, Zenon
  <2> QED
    BY <2>1, <2>2, <2>3, Zenon
<1>4. ASSUME NEW c \in Calls, call' = [call EXCEPT ![p] = c],
             c.reply = call[p].reply \/ c.reply = r
      PROVE  ProbeShape
  <2>1. probe' = [probe EXCEPT ![p].at = probe[p].at] /\ probe[p].at \in Places
    BY <1>1, <1>2 DEF Gateways
  <2>2. probe[p].at \in {"publish", "wait"} => Asking(p)
    BY DEF Asking
  <2>3. c.reply = call[p].reply \/ c.reply \in {a \in replies : a.echo[1] = p}
    BY <1>2, <1>4
  <2>4. PICK at \in Places : at = probe[p].at
    BY <2>1
  <2> QED
    BY <1>4, <2>1, <2>2, <2>3, <2>4, WithinCheck
<1>5. PICK c \in Calls :
        /\ call' = [call EXCEPT ![p] = c]
        /\ c.reply = call[p].reply \/ c.reply = r
  <2> DEFINE c1 == [call[p] EXCEPT !.pending = FALSE, !.future = "set", !.reply = r]
             c2 == [call[p] EXCEPT !.pending = FALSE]
  <2>1. c1 \in Calls /\ c2 \in Calls
    BY <1>1, CallTypes, Zenon
  <2>2. c1.reply = r /\ c2.reply = call[p].reply
    BY <1>1 DEF Calls
  <2>3. CASE call[p].pending /\ SetResult(p, r)
    <3>1. call' = [call EXCEPT ![p] = c1]
      BY <1>1, <2>3 DEF SetResult
    <3> HIDE DEF c1
    <3> QED
      BY <2>1, <2>2, <2>3, <3>1
  <2>4. CASE call' = [call EXCEPT ![p].pending = FALSE]
    <3>1. call' = [call EXCEPT ![p] = c2]
      BY <1>1, <2>4
    <3> HIDE DEF c2
    <3> QED
      BY <2>1, <2>2, <3>1
  <2>5. CASE UNCHANGED call
    <3>1. call' = [call EXCEPT ![p] = call[p]]
      BY <1>1, <2>5
    <3> QED
      BY <1>1, <3>1
  <2> QED
    BY <2>3, <2>4, <2>5 DEF OnReply
<1> QED
  BY <1>2, <1>3, <1>4, <1>5, RequestsSame, ServingFewer, RepliesFewer, OtherSame DEF Shape
-----------------------------------------------------------------------------
(* The consumers. *)

\* Starts and outages of single things, and work that comes and goes.
LEMMA PlainStep ==
  ASSUME IInv, UNCHANGED <<probes, requests, serving, replies, raised>>, OtherShape
  PROVE  Shape
BY RequestsSame, ServingFewer, RepliesFewer, ProbesSame DEF Shape

LEMMA StartShape ==
  ASSUME IInv, NEW c \in Consumers, Start(c) \/ Reopen(c)
  PROVE  Shape
<1>1. /\ UNCHANGED <<probes, requests, serving, replies, raised>> /\ UNCHANGED <<work, faults>>
      /\ up' \subseteq up \cup {c, WorkQueue(c), HealthQueue(c)} /\ up \subseteq up' /\ c \in up'
      /\ channel' = channel \cup {c}
  BY DEF Start, Reopen
<1>2. OtherShape
  <2>1. up' \subseteq Things /\ channel' \subseteq Consumers /\ channel' \subseteq up'
    BY <1>1, OtherTypes, ThingFacts
  <2> QED
    BY <1>1, <2>1, OtherTypes, Zenon DEF OtherShape
<1> QED
  BY <1>1, <1>2, PlainStep

LEMMA UpShape ==
  ASSUME IInv, DbDown \/ Recover
  PROVE  Shape
<1>1. /\ UNCHANGED <<probes, requests, serving, replies, raised>> /\ UNCHANGED <<work, channel>>
      /\ up \cap Consumers \subseteq up' /\ up' \subseteq up \cup {"db", "broker"}
  BY ThingFacts DEF DbDown, Recover, consumers
<1>2. faults' \in 0 .. MaxFaults
  BY OtherTypes, FaultsAssumption DEF DbDown, Recover, Fault
<1>3. OtherShape
  <2>1. up' \subseteq Things /\ channel' \subseteq Consumers /\ channel' \subseteq up'
    BY <1>1, OtherTypes, ThingFacts
  <2> QED
    BY <1>1, <1>2, <2>1, OtherTypes, Zenon DEF OtherShape
<1> QED
  BY <1>1, <1>3, PlainStep

LEMMA WorkShape ==
  ASSUME IInv, NEW c \in Consumers, TakeWork(c) \/ AckWork(c)
  PROVE  Shape
<1>1. /\ UNCHANGED <<probes, requests, serving, replies, raised>>
      /\ UNCHANGED <<up, channel, faults>>
      /\ \E to \in {"unacked", "acked"} : work' = [work EXCEPT ![c] = to]
  BY DEF TakeWork, AckWork
<1>2. work' \in [Consumers -> {"waiting", "unacked", "stale", "acked"}]
  BY <1>1, OtherTypes
<1>3. OtherShape
  BY <1>1, <1>2, OtherTypes, Zenon DEF OtherShape
<1> QED
  BY <1>1, <1>3, PlainStep

LEMMA TailFacts ==
  ASSUME NEW S, NEW s \in Seq(S), s # <<>>
  PROVE  /\ Head(s) \in S /\ Tail(s) \in Seq(S) /\ 1 \in DOMAIN s /\ Head(s) = s[1]
         /\ \A k \in DOMAIN Tail(s) : k + 1 \in DOMAIN s /\ Tail(s)[k] = s[k + 1]
OBVIOUS

LEMMA RequestGoes ==
  ASSUME IInv, NEW c \in Consumers, requests[c] # <<>>,
         requests' = [requests EXCEPT ![c] = Tail(@)]
  PROVE  /\ RequestShape
         /\ Head(requests[c]) \in Request /\ For(c, Head(requests[c]))
<1>1. requests \in [Consumers -> Seq(Request)]
  BY Types DEF IInv
<1>2. \A d \in Consumers : \A k \in DOMAIN requests[d] : For(d, requests[d][k])
  BY DEF IInv, RequestInv
<1>3. PICK q \in Seq(Request) : q = requests[c]
  BY <1>1
<1>4. /\ Head(q) \in Request /\ Tail(q) \in Seq(Request) /\ 1 \in DOMAIN q /\ Head(q) = q[1]
      /\ \A k \in DOMAIN Tail(q) : k + 1 \in DOMAIN q /\ Tail(q)[k] = q[k + 1]
  BY <1>3, TailFacts
<1>5. requests' \in [Consumers -> Seq(Request)]
  BY <1>1, <1>3, <1>4
<1>6. ASSUME NEW d \in Consumers, NEW k \in DOMAIN requests'[d]
      PROVE  For(d, requests'[d][k])
  <2>1. CASE d = c
    BY <1>1, <1>2, <1>3, <1>4, <1>6, <2>1
  <2>2. CASE d # c
    BY <1>1, <1>2, <1>6, <2>2
  <2> QED
    BY <2>1, <2>2
<1>7. Head(q) \in Request /\ For(c, Head(q))
  BY <1>2, <1>3, <1>4
<1> QED
  BY <1>3, <1>5, <1>6, <1>7 DEF RequestShape

LEMMA RequestShapes ==
  ASSUME IInv, NEW c \in Consumers, TakeRequest(c) \/ Expire(c)
  PROVE  Shape
<1>1. /\ UNCHANGED <<up, probes, channel, work, replies, faults, raised>>
      /\ requests[c] # <<>> /\ requests' = [requests EXCEPT ![c] = Tail(@)]
  BY DEF TakeRequest, Expire
<1>2. RequestShape /\ Head(requests[c]) \in Request /\ For(c, Head(requests[c]))
  BY <1>1, RequestGoes
<1>3. ServingShape
  <2>1. CASE UNCHANGED serving
    BY <2>1, ServingFewer
  <2>2. CASE TakeRequest(c)
    <3>1. PICK r \in Request : r = Head(requests[c]) /\ For(c, r)
      BY <1>2
    <3>2. \E f, t \in BOOLEAN :
            /\ f = FALSE
            /\ serving' = serving \cup {[by |-> c, request |-> r, at |-> "db",
                                         db |-> f, queue |-> f, live |-> t]}
      BY <2>2, <3>1, Zenon DEF TakeRequest
    <3>3. PICK f, t \in BOOLEAN :
            /\ ~f
            /\ serving' = serving \cup {[by |-> c, request |-> r, at |-> "db",
                                         db |-> f, queue |-> f, live |-> t]}
      BY <3>2, Zenon
    <3>4. PICK h \in Handlers : /\ h.by = c /\ h.request = r /\ ~h.db /\ ~h.queue
                                /\ serving' = serving \cup {h}
      BY <3>1, <3>3 DEF Handlers
    <3>5. IsFiniteSet(serving')
      BY <3>4, FS_AddElement DEF IInv, ChannelInv
    <3>6. Sound(h)
      BY <3>1, <3>4 DEF Sound, Found
    <3>7. \A g \in serving : Sound(g)
      BY SoundNow
    <3> QED
      BY <3>4, <3>5, <3>6, <3>7 DEF ServingShape
  <2> QED
    BY <2>1, <2>2 DEF Expire, TakeRequest
<1> QED
  BY <1>1, <1>2, <1>3, ProbesSame, RepliesFewer, OtherSame DEF Shape

\* A handler goes on and finds what is there now.
LEMMA SoundStays ==
  ASSUME NEW h, Sound(h), NEW g \in Handlers, g.by = h.by, g.request = h.request,
         g.db => h.db \/ "db" \in up, g.queue => h.queue \/ PublishQueue(h.by) \in up
  PROVE  Sound(g)
BY DEF Sound, Found

LEMMA HandlerTypes ==
  ASSUME NEW h \in Handlers
  PROVE  /\ \A b \in BOOLEAN : \A at \in {"db", "queue", "reply"} :
              /\ [h EXCEPT !.at = at, !.db = b] \in Handlers
              /\ [h EXCEPT !.at = at, !.queue = b] \in Handlers
              /\ [h EXCEPT !.live = b] \in Handlers
         /\ [h EXCEPT !.live = FALSE] \in Handlers
<1>1. \A b \in BOOLEAN : [h EXCEPT !.live = b] \in Handlers
  BY DEF Handlers
<1>2. [h EXCEPT !.live = FALSE] \in Handlers
  BY <1>1, Zenon
<1> QED
  BY <1>1, <1>2 DEF Handlers

LEMMA CutFacts ==
  ASSUME NEW S, IsFiniteSet(S), \A h \in S : Sound(h), NEW cs
  PROVE  IsFiniteSet(Cut(S, cs)) /\ \A h \in Cut(S, cs) : Sound(h)
<1> DEFINE cut(h) == IF h.by \in cs THEN [h EXCEPT !.live = FALSE] ELSE h
<1>1. [h \in S |-> cut(h)] \in Surjection(S, Cut(S, cs))
  BY DEF Surjection, Cut
<1>2. IsFiniteSet(Cut(S, cs))
  BY <1>1, FiniteImage
<1>3. ASSUME NEW h \in S PROVE Sound(cut(h))
  <2>1. h \in Handlers /\ [h EXCEPT !.live = FALSE] \in Handlers
    BY HandlerTypes DEF Sound
  <2>2. PICK g \in Handlers : g = [h EXCEPT !.live = FALSE]
    BY <2>1
  <2>3. g.by = h.by /\ g.request = h.request /\ g.db = h.db /\ g.queue = h.queue
    BY <2>1, <2>2 DEF Handlers
  <2>4. Sound(g)
    BY <2>3, SoundStays
  <2> QED
    BY <2>2, <2>4
<1> QED
  BY <1>2, <1>3 DEF Cut

\* One handler is replaced by what it has become.
LEMMA SoundReplaced ==
  ASSUME IInv, NEW h \in serving, NEW g \in Handlers, g.by = h.by, g.request = h.request,
         g.db => h.db \/ "db" \in up, g.queue => h.queue \/ PublishQueue(h.by) \in up
  PROVE  /\ IsFiniteSet((serving \ {h}) \cup {g})
         /\ \A k \in (serving \ {h}) \cup {g} : Sound(k)
<1>1. IsFiniteSet(serving \ {h}) /\ IsFiniteSet((serving \ {h}) \cup {g})
  BY SoundNow, FS_RemoveElement, FS_AddElement
<1>2. Sound(g)
  BY SoundNow, SoundStays
<1> QED
  BY <1>1, <1>2, SoundNow

LEMMA HandlerChecksDbShape ==
  ASSUME IInv, NEW h \in serving, HandlerChecksDb(h)
  PROVE  Shape
<1>1. UNCHANGED <<up, probes, requests, channel, work, replies, faults, raised>>
  BY DEF HandlerChecksDb
<1>2. h \in Handlers
  BY Types DEF IInv
<1>3. \E b \in BOOLEAN : (b = ("db" \in up)) /\
        serving' = (serving \ {h}) \cup {[h EXCEPT !.at = "queue", !.db = b]}
  <2>1. ("db" \in up) \in BOOLEAN
    OBVIOUS
  <2>2. serving' = (serving \ {h}) \cup {[h EXCEPT !.at = "queue", !.db = "db" \in up]}
    BY Zenon DEF HandlerChecksDb
  <2> DEFINE b == "db" \in up
  <2> WITNESS b \in BOOLEAN
  <2> QED
    BY <2>2, Zenon
<1>4. PICK b \in BOOLEAN :
        /\ b => "db" \in up
        /\ serving' = (serving \ {h}) \cup {[h EXCEPT !.at = "queue", !.db = b]}
  BY <1>3, Zenon
<1>5. PICK g \in Handlers : g = [h EXCEPT !.at = "queue", !.db = b]
  BY <1>2, HandlerTypes
<1>6. g.by = h.by /\ g.request = h.request /\ g.db = b /\ g.queue = h.queue
  BY <1>2, <1>5 DEF Handlers
<1>7. ServingShape
  BY <1>4, <1>5, <1>6, SoundReplaced DEF ServingShape
<1> QED
  BY <1>1, <1>7, RequestsSame, ProbesSame, RepliesFewer, OtherSame DEF Shape

LEMMA RequeuedShape ==
  ASSUME IInv, NEW cs, requests' = Requeued(cs)
  PROVE  RequestShape
<1>1. /\ Requeued(cs) \in [Consumers -> Seq(Request)]
      /\ \A c \in Consumers : \A k \in DOMAIN Requeued(cs)[c] : For(c, Requeued(cs)[c][k])
  BY RequeuedFacts
<1>2. PICK q : q = Requeued(cs)
  OBVIOUS
<1>3. /\ q \in [Consumers -> Seq(Request)] /\ requests' = q
      /\ \A c \in Consumers : \A k \in DOMAIN q[c] : For(c, q[c][k])
  BY <1>1, <1>2
<1> QED
  BY <1>3 DEF RequestShape

LEMMA RedeliverShape ==
  ASSUME IInv, NEW cs, Redeliver(cs), UNCHANGED <<up, faults, raised>>
  PROVE  RequestShape /\ OtherShape
<1>1. RequestShape
  BY RequeuedShape DEF Redeliver
<1>2. work' \in [Consumers -> {"waiting", "unacked", "stale", "acked"}]
  BY OtherTypes DEF Redeliver
<1>3. channel' \subseteq channel
  BY DEF Redeliver
<1>4. channel' \subseteq Consumers /\ channel' \subseteq up'
  BY <1>3, OtherTypes
<1>5. OtherShape
  BY <1>2, <1>4, OtherTypes, Zenon DEF OtherShape
<1> QED
  BY <1>1, <1>5

LEMMA HandlerChecksQueueShape ==
  ASSUME IInv, NEW h \in serving, HandlerChecksQueue(h)
  PROVE  Shape
<1>1. UNCHANGED <<up, probes, replies, faults, raised>>
  BY DEF HandlerChecksQueue
<1>2. h \in Handlers
  BY Types DEF IInv
<1> DEFINE c == h.by
           ok == c \in channel /\ PublishQueue(c) \in up
           after == (serving \ {h}) \cup {[h EXCEPT !.at = "reply", !.queue = ok]}
<1>3. \E b \in BOOLEAN :
        /\ b => PublishQueue(c) \in up
        /\ after = (serving \ {h}) \cup {[h EXCEPT !.at = "reply", !.queue = b]}
  <2>1. ok \in BOOLEAN
    OBVIOUS
  <2>2. ok => PublishQueue(c) \in up
    OBVIOUS
  <2> HIDE DEF ok
  <2> WITNESS ok \in BOOLEAN
  <2> QED
    BY <2>2, Zenon
<1>4. PICK b \in BOOLEAN :
        /\ b => PublishQueue(c) \in up
        /\ after = (serving \ {h}) \cup {[h EXCEPT !.at = "reply", !.queue = b]}
  BY <1>3
<1>5. PICK g \in Handlers : g = [h EXCEPT !.at = "reply", !.queue = b]
  BY <1>2, HandlerTypes
<1>6. g.by = h.by /\ g.request = h.request /\ g.db = h.db /\ g.queue = b
  BY <1>2, <1>5 DEF Handlers
<1>7. IsFiniteSet(after) /\ \A k \in after : Sound(k)
  <2> HIDE DEF after
  <2>1. /\ IsFiniteSet((serving \ {h}) \cup {g})
        /\ \A k \in (serving \ {h}) \cup {g} : Sound(k)
    BY <1>4, <1>6, SoundReplaced
  <2> QED
    BY <1>4, <1>5, <2>1
<1>8. \/ serving' = after /\ UNCHANGED <<requests, channel, work>>
      \/ serving' = Cut(after, {c}) /\ Redeliver({c})
  BY Zenon DEF HandlerChecksQueue
<1> HIDE DEF after
<1>9. CASE serving' = after /\ UNCHANGED <<requests, channel, work>>
  <2>1. ServingShape
    BY <1>7, <1>9 DEF ServingShape
  <2> QED
    BY <1>1, <1>9, <2>1, RequestsSame, ProbesSame, RepliesFewer, OtherSame DEF Shape
<1>10. CASE serving' = Cut(after, {c}) /\ Redeliver({c})
  <2>1. ServingShape
    BY <1>7, <1>10, CutFacts DEF ServingShape
  <2> QED
    BY <1>1, <1>10, <2>1, RedeliverShape, ProbesSame, RepliesFewer DEF Shape
<1> QED
  BY <1>8, <1>9, <1>10

LEMMA HandlerRepliesShape ==
  ASSUME IInv, NEW h \in serving, HandlerReplies(h)
  PROVE  Shape
<1> DEFINE r == [echo |-> h.request, db |-> h.db, queue |-> h.queue]
           p == h.request[1]
<1>1. /\ UNCHANGED <<up, probes, requests, channel, work, faults, raised>>
      /\ serving' \subseteq serving
  BY DEF HandlerReplies
<1>2. replies' = replies \/ (h.by \in channel /\ replies' = replies \cup {r})
  BY DEF HandlerReplies
<1>3. Sound(h) /\ h \in Handlers /\ channel \subseteq up
  BY SoundNow DEF Sound, IInv, ChannelInv
<1>4. PICK a \in Answers : a = r /\ a.echo = h.request /\ a.db = h.db /\ a.queue = h.queue
  <2>1. h.request \in Request /\ h.db \in BOOLEAN /\ h.queue \in BOOLEAN
    BY <1>3 DEF Handlers
  <2>2. r.echo = h.request /\ r.db = h.db /\ r.queue = h.queue
    BY Zenon
  <2>3. r \in Answers
    BY <2>1 DEF Answers
  <2> HIDE DEF r
  <2> QED
    BY <2>2, <2>3, Zenon
<1>5. ASSUME h.by \in channel
      PROVE  /\ \E c \in Consumers : For(c, a.echo)
             /\ Current(a.echo) => Shown(a.echo[1], a, seen[a.echo[1]] \cup up)
  <2>1. h.by \in Consumers /\ For(h.by, a.echo) /\ h.by \in up
    BY <1>3, <1>4, <1>5 DEF Sound, Handlers
  <2>2. Current(a.echo) => Check(a.echo[1]) = h.by
    BY <2>1 DEF For, Current, Check
  <2> QED
    BY <1>3, <1>4, <2>1, <2>2 DEF Sound, Found, Shown
<1>6. RepliesShape
  <2>1. CASE replies' = replies
    BY <2>1, RepliesFewer
  <2>2. CASE h.by \in channel /\ replies' = replies \cup {a}
    <3>1. \A q \in replies :
            /\ q \in Answers /\ \E c \in Consumers : For(c, q.echo)
            /\ Current(q.echo) => Shown(q.echo[1], q, seen[q.echo[1]] \cup up)
      BY Types DEF IInv, RepliesInv, Shown
    <3> QED
      BY <1>5, <2>2, <3>1 DEF RepliesShape
  <2> QED
    BY <1>2, <1>4, <2>1, <2>2
<1> QED
  BY <1>1, <1>6, RequestsSame, ServingFewer, ProbesSame, OtherSame DEF Shape
-----------------------------------------------------------------------------
(* Ends of processes and of the broker. *)

LEMMA EndsShape ==
  ASSUME IInv, NEW s \in Services, Ends(s), faults' \in 0 .. MaxFaults
  PROVE  Shape
<1> DEFINE cs == {c \in Consumers : Service(c) = s}
           gone == {p \in Probes : probe[p].service = s /\ Running(p)}
<1>1. /\ up' = up \ cs /\ channel' = channel \ cs /\ serving' \subseteq serving
      /\ requests' = Requeued(cs) /\ replies' \subseteq replies /\ UNCHANGED raised
      /\ work' = [c \in Consumers |->
           IF c \in cs /\ work[c] # "acked" THEN "waiting" ELSE work[c]]
      /\ probe' = [p \in Probes |->
           IF p \in gone THEN [probe[p] EXCEPT !.at = "lost"] ELSE probe[p]]
      /\ call' = [p \in Probes |-> IF p \in gone THEN NewCall ELSE call[p]]
  BY DEF Ends
<1>2. OtherShape
  <2>1. work' \in [Consumers -> {"waiting", "unacked", "stale", "acked"}]
    BY <1>1, OtherTypes
  <2>2. up' \subseteq Things /\ channel' \subseteq Consumers /\ channel' \subseteq up'
    BY <1>1, OtherTypes
  <2> QED
    BY <1>1, <2>1, <2>2, OtherTypes, Zenon DEF OtherShape
<1>3. ProbeShape
  <2>1. probe \in [Probes -> Gateways] /\ call \in [Probes -> Calls]
    BY Types DEF IInv
  <2>2. probe' \in [Probes -> Gateways]
    BY <1>1, <2>1 DEF Gateways, Places
  <2>3. call' \in [Probes -> Calls]
    BY <1>1, <2>1, CallTypes
  <2>4. ASSUME NEW p \in gone PROVE Moves(p) /\ CallShape(p)
    <3>1. probe'[p] = [probe[p] EXCEPT !.at = "lost"] /\ probe[p] \in Gateways /\ Running(p)
      BY <1>1, <2>1
    <3>2. probe'[p].at = "lost"
      BY <3>1 DEF Gateways
    <3> QED
      BY <3>1, <3>2 DEF Moves, CallShape, Asking
  <2>5. ASSUME NEW p \in Probes \ gone PROVE Moves(p) /\ CallShape(p)
    BY <1>1 DEF Moves, CallShape, Asking
  <2> QED
    BY <2>2, <2>3, <2>4, <2>5 DEF ProbeShape
<1>4. RequestShape
  BY <1>1, RequeuedShape
<1> QED
  BY <1>1, <1>2, <1>3, <1>4, ServingFewer, RepliesFewer DEF Shape

LEMMA StaleWorkEndsShape ==
  ASSUME IInv, NEW c \in Consumers, StaleWorkEnds(c)
  PROVE  Shape
<1>1. faults' \in 0 .. MaxFaults /\ UNCHANGED faults
  BY OtherTypes DEF StaleWorkEnds
<1>2. CASE Ends(Service(c))
  <2>1. Service(c) \in Services
    BY DEF Service, Services
  <2> QED
    BY <1>1, <1>2, <2>1, EndsShape
<1>3. CASE /\ work' = [work EXCEPT ![c] = "waiting"]
           /\ UNCHANGED <<up, probes, requests, serving, channel, replies, raised>>
  <2>1. work' \in [Consumers -> {"waiting", "unacked", "stale", "acked"}]
    BY <1>3, OtherTypes
  <2>2. OtherShape
    BY <1>1, <1>3, <2>1, OtherTypes, Zenon DEF OtherShape
  <2> QED
    BY <1>3, <2>2, PlainStep
<1> QED
  BY <1>2, <1>3 DEF StaleWorkEnds

LEMMA FaultTypes ==
  ASSUME IInv, Fault
  PROVE  faults' \in 0 .. MaxFaults
BY OtherTypes, FaultsAssumption DEF Fault

LEMMA BrokerDownShape ==
  ASSUME IInv, BrokerDown
  PROVE  Shape
<1>1. /\ UNCHANGED <<probe, raised>> /\ replies' = {} /\ channel' = {} /\ Fault
      /\ up' \subseteq up /\ serving' = Cut(serving, Consumers)
      /\ requests' = [c \in Consumers |-> <<>>]
      /\ work' = [c \in Consumers |-> IF work[c] = "unacked" THEN "stale" ELSE work[c]]
      /\ call' = [p \in Probes |-> [call[p] EXCEPT !.connected = FALSE]]
  BY DEF BrokerDown
<1>2. RequestShape
  BY <1>1 DEF RequestShape
<1>3. ServingShape
  BY <1>1, SoundNow, CutFacts DEF ServingShape
<1>4. ProbeShape
  <2>1. probe \in [Probes -> Gateways] /\ call \in [Probes -> Calls]
    BY Types DEF IInv
  <2>2. ASSUME NEW p \in Probes
        PROVE  call'[p] \in Calls /\ call'[p].reply = call[p].reply
    <3>1. call[p] \in Calls /\ [call[p] EXCEPT !.connected = FALSE] \in Calls
      BY <2>1, CallTypes, Zenon
    <3>2. \A b : [call[p] EXCEPT !.connected = b].reply = call[p].reply
      BY <3>1 DEF Calls
    <3>3. call'[p] = [call[p] EXCEPT !.connected = FALSE]
      BY <1>1, Zenon
    <3> QED
      BY <3>1, <3>2, <3>3, Zenon
  <2>3. call' \in [Probes -> Calls]
    <3>1. PICK b : b = FALSE
      OBVIOUS
    <3>2. call' = [p \in Probes |-> [call[p] EXCEPT !.connected = b]]
      BY <1>1, <3>1, Zenon
    <3> QED
      BY <2>2, <3>2
  <2> QED
    BY <1>1, <2>1, <2>2, <2>3 DEF ProbeShape, Moves, CallShape, Asking
<1>5. OtherShape
  <2>1. work' \in [Consumers -> {"waiting", "unacked", "stale", "acked"}]
    BY <1>1, OtherTypes
  <2>2. up' \subseteq Things /\ channel' \subseteq Consumers /\ channel' \subseteq up'
    BY <1>1, OtherTypes
  <2> QED
    BY <1>1, <2>1, <2>2, OtherTypes, FaultTypes, Zenon DEF OtherShape
<1> QED
  BY <1>1, <1>2, <1>3, <1>4, <1>5, RepliesFewer DEF Shape

LEMMA StepShape ==
  ASSUME IInv, Steps
  PROVE  Shape
<1>1. ASSUME NEW p \in Probes, ProbeStep(p) PROVE Shape
  BY <1>1, ProbeChecks, ConnectShape, CallShapes, ResumeShape DEF ProbeStep
<1>2. ASSUME NEW p \in Probes, NEW s \in Services, Get(p, s) PROVE Shape
  BY <1>2, GetShape
<1>3. ASSUME NEW p \in Probes, NEW r \in replies, OnReply(p, r) PROVE Shape
  BY <1>3, OnReplyShape
<1>4. ASSUME NEW c \in Consumers, Start(c) \/ Reopen(c) PROVE Shape
  BY <1>4, StartShape
<1>5. ASSUME NEW c \in Consumers, TakeRequest(c) \/ Expire(c) PROVE Shape
  BY <1>5, RequestShapes
<1>6. ASSUME NEW c \in Consumers, WorkStep(c) PROVE Shape
  BY <1>6, WorkShape, StaleWorkEndsShape DEF WorkStep
<1>7. ASSUME NEW h \in serving, HandlerChecksDb(h) \/ HandlerChecksQueue(h) \/ HandlerReplies(h)
      PROVE  Shape
  BY <1>7, HandlerChecksDbShape, HandlerChecksQueueShape, HandlerRepliesShape
<1>8. CASE DbDown \/ Recover
  BY <1>8, UpShape
<1>9. CASE BrokerDown
  BY <1>9, BrokerDownShape
<1>10. ASSUME NEW s \in Services, Crash(s) PROVE Shape
  BY <1>10, EndsShape, FaultTypes DEF Crash
<1> QED
  BY <1>1, <1>2, <1>3, <1>4, <1>5, <1>6, <1>7, <1>8, <1>9, <1>10 DEF Steps
-----------------------------------------------------------------------------
\* The inductive invariant of the health checks.
THEOREM Invariance == Spec => []IInv
<1>1. Init => IInv
  <2> SUFFICES ASSUME Init PROVE IInv
    OBVIOUS
  <2> DEFINE g == [at |-> "new", service |-> "web", check |-> 1, failed |-> {}]
  <2>1. g \in Gateways /\ g.at = "new" /\ g.check = 1 /\ g.failed = {}
    BY DEF Gateways, Places, Services
  <2>2. probe = [p \in Probes |-> g]
    BY DEF Init
  <2> HIDE DEF g
  <2>3. \A p \in Probes : probe[p].at = "new" /\ probe[p].check = 1 /\ probe[p].failed = {}
    BY <2>1, <2>2
  <2>4. TypeOK
    <3>1. up \subseteq Things /\ channel \subseteq Consumers
      BY ConsumersAssumption, ThingFacts DEF Init
    <3>2. probe \in [Probes -> Gateways]
      BY <2>1, <2>2
    <3>3. call \in [Probes -> Calls]
      <4>1. call = [p \in Probes |-> NewCall]
        BY Zenon DEF Init
      <4> QED
        BY <4>1, CallTypes
    <3>4. requests \in [Consumers -> Seq(Request)]
      BY DEF Init
    <3>5. serving = {} /\ replies = {}
      BY DEF Init
    <3>6. work \in [Consumers -> {"waiting", "unacked", "stale", "acked"}]
      BY DEF Init
    <3>7. faults \in 0 .. MaxFaults
      BY FaultsAssumption DEF Init
    <3>8. raised \in BOOLEAN
      BY Zenon DEF Init
    <3>9. serving \subseteq Handlers /\ replies \subseteq Answers
      BY <3>5
    <3> QED
      BY <3>1, <3>2, <3>3, <3>4, <3>6, <3>7, <3>8, <3>9, Types, Zenon
  <2>5. RequestInv /\ ServingInv /\ RepliesInv
    BY DEF Init, RequestInv, ServingInv, RepliesInv
  <2>6. CallInv /\ ProbeInv /\ HealthyWasHealthy
    <3>1. \A p \in Probes : backed[p] = {}
      BY DEF Init
    <3> QED
      BY <2>3, <3>1 DEF CallInv, ProbeInv, HealthyWasHealthy, Asking, Running, At
  <2>7. ChannelInv
    BY FS_EmptySet DEF Init, ChannelInv
  <2> QED
    BY <2>4, <2>5, <2>6, <2>7 DEF IInv
<1>2. IInv /\ [Next]_vars => IInv'
  <2> SUFFICES ASSUME IInv, [Next]_vars PROVE IInv'
    OBVIOUS
  <2>1. CASE Next
    BY <2>1, StepShape, ShapeKeepsInv DEF Next
  <2>2. CASE UNCHANGED vars
    <3>1. TypeOK' /\ HealthyWasHealthy'
      BY <2>2, Zenon DEF vars, IInv, TypeOK, HealthyWasHealthy, At
    <3>2. RequestInv' /\ ServingInv' /\ RepliesInv'
      BY <2>2 DEF vars, IInv, RequestInv, ServingInv, RepliesInv, For, Sent, Current, Running,
                  At, Found, Shown, Check
    <3>3. CallInv' /\ ProbeInv' /\ ChannelInv'
      BY <2>2 DEF vars, IInv, CallInv, ProbeInv, ChannelInv, Asking, Running, At, Shown, Check
    <3> QED
      BY <3>1, <3>2, <3>3 DEF IInv
  <2> QED
    BY <2>1, <2>2
<1> QED
  BY <1>1, <1>2, PTL DEF Spec

\* Type correctness of the probes, the calls, the queues and the consumers.
THEOREM TypeCorrect == Spec => []TypeOK
<1>1. IInv => TypeOK
  BY DEF IInv
<1> QED
  BY <1>1, Invariance, PTL

\* GET /health answers 200 only if everything its checks vouch for was there
\* during that very check, however requests and replies are lost, late or
\* repeated and whatever crashes.
THEOREM HealthyCorrect == Spec => []HealthyWasHealthy
<1>1. IInv => HealthyWasHealthy
  BY DEF IInv
<1> QED
  BY <1>1, Invariance, PTL

\* RpcClient._on_reply never gives a result to a future that is done.
THEOREM ResolvedCorrect == Spec => []ResolvedOnce
<1>1. Init => ResolvedOnce
  BY Zenon DEF Init, ResolvedOnce
<1>2. IInv /\ Steps => UNCHANGED raised
  <2> SUFFICES ASSUME IInv, Steps PROVE UNCHANGED raised
    OBVIOUS
  <2>1. ASSUME NEW p \in Probes, ProbeStep(p) PROVE UNCHANGED raised
    BY <2>1, Zenon DEF ProbeStep, db_check, broker_check, Connect, Confirmed, PublishFails,
                       TimerFires, Resume, CheckEnds
  <2>2. ASSUME NEW p \in Probes, NEW s \in Services, Get(p, s) PROVE UNCHANGED raised
    BY <2>2 DEF Get
  <2>3. ASSUME NEW p \in Probes, NEW r \in replies, OnReply(p, r) PROVE UNCHANGED raised
    BY <2>3, OnReplyShape
  <2>4. ASSUME NEW c \in Consumers,
               Start(c) \/ TakeRequest(c) \/ Expire(c) \/ Reopen(c) \/ WorkStep(c)
        PROVE  UNCHANGED raised
    BY <2>4, Zenon DEF Start, TakeRequest, Expire, Reopen, WorkStep, TakeWork, AckWork,
                       StaleWorkEnds, Ends
  <2>5. ASSUME NEW h \in serving, HandlerChecksDb(h) \/ HandlerChecksQueue(h) \/ HandlerReplies(h)
        PROVE  UNCHANGED raised
    BY <2>5, Zenon DEF HandlerChecksDb, HandlerChecksQueue, HandlerReplies
  <2>6. DbDown \/ BrokerDown \/ Recover => UNCHANGED raised
    BY Zenon DEF DbDown, BrokerDown, Recover
  <2>7. ASSUME NEW s \in Services, Crash(s) PROVE UNCHANGED raised
    BY <2>7, Zenon DEF Crash, Ends
  <2> QED
    BY <2>1, <2>2, <2>3, <2>4, <2>5, <2>6, <2>7, Zenon DEF Steps
<1>3. IInv /\ ResolvedOnce /\ [Next]_vars => ResolvedOnce'
  BY <1>2, Zenon DEF Next, ResolvedOnce, vars
<1> QED
  BY <1>1, <1>3, Invariance, PTL DEF Spec
-----------------------------------------------------------------------------
(* Every probe approaches its answer. *)

\* How far the current check has come: it runs, it publishes its request, it
\* waits for the reply, its timer has fired.
Stage(p) ==
  IF At(p, "check") THEN 1
  ELSE IF At(p, "publish") THEN 2
  ELSE IF ~call[p].late THEN 3 ELSE 4

\* How far the probe has come.
Rank(p) ==
  IF At(p, "new") THEN 0
  ELSE IF Running(p) THEN 4 * (probe[p].check - 1) + Stage(p) ELSE 9

LEMMA RankBounds ==
  ASSUME TypeOK, NEW p \in Probes
  PROVE  /\ Rank(p) \in 0 .. 9
         /\ Running(p) => Rank(p) \in 4 * (probe[p].check - 1) + 1 .. 4 * probe[p].check
<1>1. probe[p].check \in 1 .. 2
  BY Types DEF Gateways
<1> QED
  BY <1>1 DEF Rank, Stage, Running, At

\* The end of a check is the beginning of the next one, or the answer.
LEMMA EndedRank ==
  ASSUME IInv, NEW p \in Probes, NEW f \in SUBSET (1 .. 2), Running(p), Ended(p, f)
  PROVE  Rank(p)' > Rank(p)
<1>1. probe[p] \in Gateways
  BY Types DEF IInv
<1>2. PICK i \in 1 .. 2 : i = probe[p].check /\ Rank(p) \in 0 .. 4 * i
  BY <1>1, RankBounds DEF Gateways, IInv
<1>3. CASE i = Len(Checks(probe[p].service))
  <2>1. probe'[p].at \in {"200", "503"}
    BY <1>2, <1>3 DEF Ended
  <2>2. Rank(p)' = 9
    BY <2>1 DEF Rank, Running, At
  <2> QED
    BY <1>2, <2>2
<1>4. CASE i # Len(Checks(probe[p].service))
  <2>1. probe'[p].at = "check" /\ probe'[p].check = i + 1
    BY <1>2, <1>4 DEF Ended
  <2>2. Rank(p)' = 4 * i + 1
    BY <1>2, <2>1 DEF Rank, Stage, Running, At
  <2> QED
    BY <1>2, <2>2
<1> QED
  BY <1>3, <1>4

\* The steps that end a check, whatever they find.
Concludes(p) ==
  \E f \in SUBSET (1 .. 2) :
    /\ probe' = [probe EXCEPT
         ![p].at = IF probe[p].check # Len(Checks(probe[p].service)) THEN "check"
                   ELSE IF f = {} THEN "200" ELSE "503",
         ![p].check = IF probe[p].check = Len(Checks(probe[p].service))
                      THEN probe[p].check ELSE probe[p].check + 1,
         ![p].failed = f]
    /\ call' = [call EXCEPT ![p] = NewCall]

LEMMA ConcludesFails ==
  ASSUME IInv, NEW p \in Probes, CheckEnds(p, FALSE)
  PROVE  Concludes(p)
<1> DEFINE f == probe[p].failed \cup {probe[p].check}
<1>1. probe[p] \in Gateways
  BY Types DEF IInv
<1>2. f \in SUBSET (1 .. 2)
  BY <1>1 DEF Gateways
<1> QED
  BY <1>2 DEF CheckEnds, Concludes

LEMMA ConcludesPasses ==
  ASSUME IInv, NEW p \in Probes, CheckEnds(p, TRUE)
  PROVE  Concludes(p)
<1> DEFINE f == probe[p].failed
<1>1. probe[p] \in Gateways
  BY Types DEF IInv
<1>2. f \in SUBSET (1 .. 2) /\ probe[p].failed \cup {} = f
  BY <1>1 DEF Gateways
<1> QED
  BY <1>2 DEF CheckEnds, Concludes

LEMMA ConcludingSteps ==
  ASSUME IInv, NEW p \in Probes,
         \/ db_check(p) \/ broker_check(p) \/ PublishFails(p) \/ Resume(p)
         \/ Connect(p) /\ "broker" \notin up
  PROVE  Running(p) /\ Concludes(p)
<1>1. Running(p)
  BY DEF db_check, broker_check, PublishFails, Resume, Connect, At, Running
<1>2. CASE db_check(p)
  <2>1. "db" \in up => CheckEnds(p, TRUE)
    BY <1>2 DEF db_check, CheckEnds
  <2>2. "db" \notin up => CheckEnds(p, FALSE)
    BY <1>2 DEF db_check, CheckEnds
  <2> QED
    BY <1>1, <2>1, <2>2, ConcludesPasses, ConcludesFails, Zenon
<1>3. CASE broker_check(p)
  <2>1. {"broker", "matches.build"} \subseteq up => CheckEnds(p, TRUE)
    BY <1>3 DEF broker_check, CheckEnds
  <2>2. ~({"broker", "matches.build"} \subseteq up) => CheckEnds(p, FALSE)
    BY <1>3 DEF broker_check, CheckEnds
  <2> QED
    BY <1>1, <2>1, <2>2, ConcludesPasses, ConcludesFails, Zenon
<1>4. CASE PublishFails(p)
  BY <1>1, <1>4, ConcludesFails, Zenon DEF PublishFails
<1>5. CASE Resume(p)
  <2> DEFINE good == ~call[p].late /\ Verdict(<<p, probe[p].check>>, call[p].reply)
  <2>1. good => CheckEnds(p, TRUE)
    BY <1>5 DEF Resume, CheckEnds
  <2>2. ~good => CheckEnds(p, FALSE)
    BY <1>5 DEF Resume, CheckEnds
  <2> QED
    BY <1>1, <2>1, <2>2, ConcludesPasses, ConcludesFails, Zenon
<1>6. CASE Connect(p) /\ "broker" \notin up
  BY <1>1, <1>6, ConcludesFails, Zenon DEF Connect
<1> QED
  BY <1>1, <1>2, <1>3, <1>4, <1>5, <1>6

LEMMA ConcludesRank ==
  ASSUME IInv, NEW p \in Probes, Running(p), Concludes(p)
  PROVE  Rank(p)' > Rank(p)
<1>1. probe \in [Probes -> Gateways] /\ probe[p] \in Gateways
  BY Types DEF IInv
<1>2. PICK f \in SUBSET (1 .. 2) :
        probe' = [probe EXCEPT
           ![p].at = IF probe[p].check # Len(Checks(probe[p].service)) THEN "check"
                     ELSE IF f = {} THEN "200" ELSE "503",
           ![p].check = IF probe[p].check = Len(Checks(probe[p].service))
                        THEN probe[p].check ELSE probe[p].check + 1,
           ![p].failed = f]
  BY DEF Concludes
<1>3. Ended(p, f)
  BY <1>1, <1>2 DEF Ended, Gateways
<1> QED
  BY <1>3, EndedRank

\* Each step of a probe takes it forward.
LEMMA ProbeStepRank ==
  ASSUME IInv, NEW p \in Probes, ProbeStep(p)
  PROVE  Rank(p)' > Rank(p)
<1>1. /\ probe \in [Probes -> Gateways] /\ call \in [Probes -> Calls]
      /\ probe[p] \in Gateways /\ call[p] \in Calls
  BY Types DEF IInv
<1>2. PICK i \in 1 .. 2 : i = probe[p].check
  BY <1>1 DEF Gateways
<1>4. ASSUME NEW at \in {"publish", "wait"}, probe' = [probe EXCEPT ![p].at = at],
             \/ At(p, "check") /\ at = "publish"
             \/ At(p, "publish") /\ at = "wait"
             \/ At(p, "wait") /\ at = "wait" /\ ~call[p].late /\ call'[p].late
      PROVE  Rank(p)' > Rank(p)
  <2>1. probe'[p].at = at /\ probe'[p].check = i
    BY <1>1, <1>2, <1>4 DEF Gateways
  <2> QED
    BY <1>2, <1>4, <2>1 DEF Rank, Stage, Running, At
<1>5. CASE db_check(p) \/ broker_check(p) \/ PublishFails(p) \/ Resume(p)
  BY <1>5, ConcludingSteps, ConcludesRank
<1>6. CASE Connect(p)
  <2>1. CASE "broker" \notin up
    BY <1>6, <2>1, ConcludingSteps, ConcludesRank
  <2>2. CASE "broker" \in up
    BY <1>4, <1>6, <2>2 DEF Connect
  <2> QED
    BY <2>1, <2>2
<1>7. CASE Confirmed(p)
  BY <1>4, <1>7 DEF Confirmed
<1>8. CASE TimerFires(p)
  <2>1. probe' = [probe EXCEPT ![p].at = "wait"] /\ At(p, "wait") /\ ~call[p].late
    BY <1>1, <1>8 DEF TimerFires, At, Gateways
  <2>2. call'[p].late
    BY <1>1, <1>8 DEF TimerFires, Calls
  <2> QED
    BY <1>4, <2>1, <2>2
<1> QED
  BY <1>5, <1>6, <1>7, <1>8 DEF ProbeStep

\* A timer that has fired has fired for good.
LEMMA LateKept ==
  ASSUME IInv, Steps, NEW p \in Probes, At(p, "wait"), call[p].late, probe'[p] = probe[p]
  PROVE  call'[p].late
<1>1. /\ probe \in [Probes -> Gateways] /\ call \in [Probes -> Calls]
      /\ probe[p] \in Gateways /\ call[p] \in Calls /\ Running(p)
  BY Types DEF IInv, At, Running
<1>2. CASE call'[p] = call[p]
  BY <1>2
<1>3. ASSUME NEW q \in Probes, ProbeStep(q) PROVE call'[p].late
  <2>1. CASE q = p
    <3>1. Rank(p)' > Rank(p)
      BY <1>3, <2>1, ProbeStepRank
    <3>2. CASE ~call'[p].late
      <4>1. Rank(p)' <= Rank(p)
        BY <1>1, <3>2 DEF Rank, Stage, Running, At, Gateways
      <4> QED
        BY <1>1, <3>1, <4>1, RankBounds DEF IInv, Rank, Stage, Running, At, Gateways
    <3> QED
      BY <3>2
  <2>2. CASE q # p
    <3>1. call'[p] = call[p]
      <4>1. Concludes(q) => call'[p] = call[p]
        BY <1>1, <2>2 DEF Concludes
      <4>2. db_check(q) \/ broker_check(q) \/ PublishFails(q) \/ Resume(q) => call'[p] = call[p]
        BY <4>1, ConcludingSteps
      <4>3. Connect(q) => call'[p] = call[p]
        <5>1. "broker" \in up /\ Connect(q) => call'[p] = call[p]
          BY <1>1, <2>2 DEF Connect
        <5> QED
          BY <4>1, <5>1, ConcludingSteps
      <4>4. Confirmed(q) \/ TimerFires(q) => call'[p] = call[p]
        BY <1>1, <2>2 DEF Confirmed, TimerFires
      <4> QED
        BY <1>3, <4>2, <4>3, <4>4 DEF ProbeStep
    <3> QED
      BY <1>2, <3>1
  <2> QED
    BY <2>1, <2>2
<1>4. ASSUME NEW q \in Probes, NEW r \in replies, OnReply(q, r) PROVE call'[p].late
  BY <1>1, <1>4 DEF OnReply, SetResult, Calls
<1>5. ASSUME NEW q \in Probes, NEW s \in Services, Get(q, s) PROVE call'[p].late
  BY <1>5 DEF Get
<1>6. ASSUME NEW s \in Services, Ends(s) PROVE call'[p].late
  <2>1. CASE probe[p].service = s
    <3>1. probe'[p] = [probe[p] EXCEPT !.at = "lost"]
      BY <1>1, <1>6, <2>1 DEF Ends
    <3> QED
      BY <1>1, <3>1 DEF Gateways, At
  <2>2. CASE probe[p].service # s
    BY <1>6, <2>2 DEF Ends
  <2> QED
    BY <2>1, <2>2
<1>7. ASSUME NEW c \in Consumers,
             Start(c) \/ TakeRequest(c) \/ Expire(c) \/ Reopen(c) \/ WorkStep(c)
      PROVE  call'[p].late
  <2>1. Service(c) \in Services
    BY DEF Service, Services
  <2>2. CASE UNCHANGED call
    BY <2>2
  <2> QED
    BY <1>6, <1>7, <2>1, <2>2, Zenon
    DEF Start, TakeRequest, Expire, Reopen, WorkStep, TakeWork, AckWork, StaleWorkEnds, probes
<1>8. ASSUME NEW h \in serving, HandlerChecksDb(h) \/ HandlerChecksQueue(h) \/ HandlerReplies(h)
      PROVE  call'[p].late
  BY <1>8 DEF HandlerChecksDb, HandlerChecksQueue, HandlerReplies, probes
<1>9. CASE DbDown \/ Recover
  BY <1>9 DEF DbDown, Recover, probes
<1>10. CASE BrokerDown
  <2>1. call'[p] = [call[p] EXCEPT !.connected = FALSE]
    BY <1>10 DEF BrokerDown
  <2> QED
    BY <1>1, <2>1 DEF Calls
<1>11. ASSUME NEW s \in Services, Crash(s) PROVE call'[p].late
  BY <1>6, <1>11 DEF Crash
<1> QED
  BY <1>3, <1>4, <1>5, <1>7, <1>8, <1>9, <1>10, <1>11 DEF Steps

\* No step of whatever else takes a probe back.
LEMMA RankKept ==
  ASSUME IInv, Steps, NEW p \in Probes
  PROVE  Rank(p)' >= Rank(p)
<1>1. probe[p] \in Gateways /\ call[p] \in Calls /\ Moves(p)
  BY StepShape, Types DEF IInv, Shape, ProbeShape
<1>2. PICK i \in 1 .. 2 : i = probe[p].check
  BY <1>1 DEF Gateways
<1>3. Rank(p) \in 0 .. 9 /\ (Running(p) => Rank(p) \in 4 * (i - 1) + 1 .. 4 * i)
  BY <1>2, RankBounds DEF IInv
<1>4. CASE probe'[p] = probe[p]
  <2>1. CASE At(p, "wait") /\ call[p].late
    <3>1. call'[p].late
      BY <1>4, <2>1, LateKept
    <3> QED
      BY <1>2, <1>4, <2>1, <3>1 DEF Rank, Stage, Running, At
  <2>2. CASE ~(At(p, "wait") /\ call[p].late)
    BY <1>2, <1>4, <2>2 DEF Rank, Stage, Running, At
  <2> QED
    BY <2>1, <2>2
<1>5. CASE At(p, "new") /\ \E s \in Services : probe'[p] = [probe[p] EXCEPT !.at = "check", !.service = s]
  <2>1. probe'[p].at = "check" /\ probe'[p].check = i
    BY <1>1, <1>2, <1>5 DEF Gateways
  <2> QED
    BY <1>2, <1>5, <2>1 DEF Rank, Stage, Running, At
<1>6. CASE /\ probe[p].at \in {"check", "publish"} /\ Asking(p)'
           /\ \E to \in Places : probe'[p] = [probe[p] EXCEPT !.at = to]
  <2>1. probe'[p].at \in {"publish", "wait"} /\ probe'[p].check = i
    BY <1>1, <1>2, <1>6 DEF Gateways, Asking
  <2> QED
    BY <1>2, <1>6, <2>1 DEF Rank, Stage, Running, At
<1>7. ASSUME NEW f \in SUBSET (1 .. 2), Running(p), Ended(p, f) PROVE Rank(p)' >= Rank(p)
  <2>1. Rank(p)' > Rank(p)
    BY <1>7, EndedRank
  <2>2. Rank(p)' \in Int
    <3>1. probe'[p].at \in {"check", "200", "503"} /\ probe'[p].check \in {i, i + 1}
      BY <1>2, <1>7 DEF Ended
    <3> QED
      BY <1>2, <3>1 DEF Rank, Stage, Running, At
  <2> QED
    BY <1>3, <2>1, <2>2
<1>8. CASE Running(p) /\ probe'[p] = [probe[p] EXCEPT !.at = "lost"]
  <2>1. probe'[p].at = "lost"
    BY <1>1, <1>8 DEF Gateways
  <2>2. Rank(p)' = 9
    BY <2>1 DEF Rank, Running, At
  <2> QED
    BY <1>3, <2>2
<1>9. probe[p].failed \in SUBSET (1 .. 2) /\ probe[p].failed \cup {probe[p].check} \in SUBSET (1 .. 2)
  BY <1>1 DEF Gateways
<1> QED
  BY <1>1, <1>4, <1>5, <1>6, <1>7, <1>8, <1>9, Zenon DEF Moves

\* A probe makes nine steps at most until it is answered or lost, each of them
\* takes it forward, and nothing that the consumers, the broker, the database
\* or another probe does takes it back: no check is ever started again.
THEOREM AnswerNears ==
  Spec => /\ [](\A p \in Probes : Rank(p) \in 0 .. 9)
          /\ [][\A p \in Probes : /\ Rank(p)' >= Rank(p)
                                  /\ ProbeStep(p) => Rank(p)' > Rank(p)]_vars
<1>1. IInv => \A p \in Probes : Rank(p) \in 0 .. 9
  BY RankBounds DEF IInv
<1>2. IInv /\ [Next]_vars =>
        [\A p \in Probes : /\ Rank(p)' >= Rank(p)
                           /\ ProbeStep(p) => Rank(p)' > Rank(p)]_vars
  BY RankKept, ProbeStepRank DEF Next
<1> QED
  BY <1>1, <1>2, Invariance, PTL DEF Spec
=============================================================================
