# A TLA+ model of the tic-tac-toe bots platform

This directory specifies the platform of the repository in TLA+, checks it
with TLC on small instances and proves its safety properties with TLAPS for all.
Paths of source files are relative to the repository.

    tlc -config MCMatchRunner.cfg MCMatchRunner     # a run
    tlapm MatchRunnerProofs.tla                     # the proofs of a module

## 1. The system

Users upload tic-tac-toe bots (Python programs) to a web site. Each accepted
bot gets a Kubernetes pod of its own, plays every other bot in both roles, and
appears on a leaderboard.

    browser --POST /submit--> web --matches.build--> pod_builder
                               |                        | create pod, wait, set_pod_ready
                               v                        v
                            Postgres <----- matches.schedule
                               ^                        |
                               |                        v
     ondeck_handler <--matches.ondeck-- match_scheduler (reads the ready bots)
        |  run_match_from_pods
        +--- POST /turn ---> bot pods (turn_server.py) <--- POST /play/turn, web

Deployment (`k8s/`): one replica each of web, match_scheduler and dispatcher;
Postgres; RabbitMQ without a volume; bot pods with `restartPolicy: Never`.
`pod_builder`, `ondeck_handler` and a health server are coroutines of one
process, the dispatcher, under one `asyncio.gather`.

### Inventory

| Component | State | Operations | Talks to | What is hard |
|---|---|---|---|---|
| engine (`runner/engine.py`) | none | `parse_board`, `board_to_str`, `validate_move`, `check_winner` | called by the runner | answers are arbitrary text; the order of the lines |
| match runner (`dispatcher/match_runner.py`) | board, moves, move number | `run_match_from_pods`, `_play_turn` | pods over HTTP | two equal timeouts race; only some exceptions are forfeits; no return after the loop |
| turn server (`bot-runner-images/python/turn_server.py`) | the source | `/turn`, `/health` | runs the bot | one request at a time, shared by matches and humans |
| pod helpers (`dispatcher/pods.py`) | none | create, poll, look up, request | Kubernetes | polling with deadlines |
| pod_builder | the message in hand | `handle_build_pod_message` | Kubernetes, Postgres, broker | a crash between any two of create / set_pod_ready / publish / ack |
| match_scheduler | the message in hand | `handle_pod_ready_message`, `_enqueue_matches` | Postgres, broker | reads a list while bots become ready; a crash between two publications |
| ondeck_handler | the message in hand | `handle_match_ondeck` | pods, Postgres, broker | a crash between commit and ack; shares its fate with pod_builder |
| broker client (`messaging/`) | lazy connection | `enqueue_build_pod`, `publish_event` | broker | queues that nobody declared; half-made connections |
| RPC and health (`messaging/rpc_*.py`, `health.py`) | pending calls | `call`, `_on_reply`, `serve_rpc`, echo handlers | broker | timeout against late reply; a passive declare on the consumer's channel |
| repositories (`entities/`) | `bots`, `matches`, `moves` | `next_version`, `create`, `ready_bots`, `set_pod_ready`, `record`, leaderboard queries | Postgres | read before write; sums over families |
| submission (`web/submit.py`) | a handler per request; a cookie per browser | `handle_submission` | Postgres, broker, browser | two check-then-act gaps; a cookie read at the start and written at the end; failure after commit |
| play page (`web/play.py`, `bot_client.py`, `static/play*.mjs`) | board and turn, in the browser | click, `/play/turn` | a pod | clicks during a pending turn; a second implementation of the rules |
| pages (`web/main.py`) | none | leaderboard, family page, match page | repositories | two queries for one page |
| match player, dashboard, live poll (`web/static/`) | position and timer; socket | step, autoplay; announce | web | timers and reconnects |
| example bots (`example_bots/`) | none | board and symbol to board | turn server | what they are meant to show takes whole games to see |
| scripts (`scripts/`) | none | reset, seed, export | everything | racing with work in flight |

For each component PROJECT.json lists whether it is modelled, and under
`hazards` what can go wrong in it that a test hardly reaches. The correctness
properties, in words: a match is a game of tic-tac-toe and its record replays
(engine, runner); any two ready bots meet in both roles, and crashes repeat or
lose only as many matches as they account for (pipeline); versions of a family
are contiguous, a name belongs to who claimed it, what is built is in the
database, and the broker connection that uploads share gets completed
(submission); a probe gets an answer, and 200 only from a service that was
healthy (RPC and health); the page, the server and the engine agree on what a
legal game is and an answer fits the board it is applied to (play); the columns
and sums of the leaderboard agree with the matches (repositories, pages).

## 2. Modules

| Module | Models | Built on |
|---|---|---|
| `Engine` | the pure functions of `runner/engine.py` | |
| `TicTacToe` | abstract: what a match promises | |
| `MatchRunner` | one call of `run_match_from_pods`; the pod's side of a turn | `Engine`; implements `TicTacToe` |
| `Tournament` | abstract: what the pipeline promises, an all-play-all tournament that bots join while it runs | |
| `Pipeline` | web (from the commit on), three queues, pod_builder, match_scheduler, ondeck_handler, pods | implements `Tournament` |
| `Submission` | concurrent `handle_submission`s, the `bots` table, cookies, the broker client's lazy connection | |
| `Play` | the play page, `/play/turn`, the bot client, and the turn server that a match asks too | `Engine`; implements `TicTacToe` between two loads of the page |
| `Health` | `GET /health` of the three services, the RPC behind it, the consumers' channels | |
| `Leaderboard` | the tables, the queries over them, the family page | |
| `ExampleBots` | the bots of `example_bots/`, in matches against any opponent | `Engine` |
| `BotOutputs` | answers of each kind, for the instances | `Engine` |
| `MC...` | instances for TLC; modules whose constants are plain values have only a `.cfg` | the module they name |
| `EngineProofs`, `MatchRunnerProofs`, `PipelineProofs`, `SubmissionProofs`, `PlayProofs`, `HealthProofs`, `LeaderboardProofs` | theorems | the module they name |
| `PipelineBoundsProofs` | theorems on how often `Pipeline` publishes, repeats and loses a match and how often the dispatcher ends, and that it implements `Tournament` | `PipelineProofs` |

Definitions named `..._something` with the comment "Faulty variant" are not part
of a specification: each is a plausible mistake in the definition that follows
it, and putting it in place must break a property.

### Engine and MatchRunner

A text is the sequence of its lines, each the sequence of its fields, so
`parse_board` really rejects wrong numbers of lines and fields and fields that
are no marks. Whitespace around a text, which `strip()` removes, is not
represented. `MatchRunner`'s variables are the locals of `run_match_from_pods`
(`board`, `moves`), its program counter, result and exception. What a bot prints
is any element of the constant `Outputs(board)`. A request ends in one of six
ways: the connection fails (`URLError`, a forfeit), the bot prints something,
the server's limit expires (an error answer, a forfeit), the client's limit
expires (`TimeoutError`) or the connection breaks (`RemoteDisconnected`). The last
two are no `URLError`s, so they leave the function, as a failing `get_pod_ip`
does. Error texts are reduced to whether there is one. `crashed` is a history
variable: whether the bot that answered last has ended with an unhandled
exception, which nothing in the code looks at.

`TicTacToe` knows a grid and a status; whose turn it is follows from the grid,
and lines are defined by geometry rather than by a list. It leaves open what is a
forfeit and only says whose it is; that the code judges otherwise than the list of
offences in the repository's README (lines 45-50) is what the run `match_offences`
shows. The refinement maps the board to the grid, and the program counter, result and exception to the status.

### Pipeline

Each consumer is a record: the step its handler is at and the message in hand.
Queues are bags, a number per possible message; no property depends on order.
The handlers' awaits are the boundaries between actions. Faults are actions that
count against `MaxFaults` and may be switched off one kind at a time (`Faults`).
What is not written in the repository is taken from how the libraries behave:

* `message.process()` acks on return; on an exception it rejects without
  requeueing, the exception leaves `run()` and ends the process.
* When a handler of the dispatcher raises, the other one is cancelled, which
  rejects its message as well unless the connection closes before that; both
  outcomes are possible in the model. A killed process's messages are redelivered.
* A message published on the default exchange for a queue that does not exist is
  dropped. Each consumer declares the queue it reads and web declares
  `matches.build`; nobody else declares `matches.schedule` or `matches.ondeck`.
* Kubernetes refuses a second pod of the same name, and restarts an ended
  service but never a bot's pod.
* A pod that ends is either `"dead"`, which keeps its IP, or `"no_ip"` (evicted, say).
  A match against the first gets `URLError` and is a recorded forfeit (`PlayMatch`);
  against the second `get_pod_ip` raises and ends the dispatcher (`PlayWithoutPod`).
  A pod object that is missing would raise as well; only `scripts/reset_db.py`
  deletes pods, which is not modelled here.
* The readiness probes of the dispatcher and the scheduler make the echo handlers of
  pod_builder and match_scheduler declare the queue they publish to passively, on
  the channel that their work arrives on. While that queue does not exist RabbitMQ
  closes the channel (`BuilderChannelCloses`, `SchedulerChannelCloses`): the message
  goes back into its queue, and its handler goes on with `held` false. What such a
  handler publishes may arrive or raise, its ack may get lost or raise
  (`StaleBuilderRaises`, `StaleSchedulerRaises`); while it runs, its consumer takes no
  other message. An idle consumer only reopens its channel, which changes nothing.
  How a probe comes about is in `Health`; here `MaxClosings` bounds how often one
  does this. (ondeck_handler looks for its own queue, which it has declared.)
* `stops`, `podless`, `closings` and `dropped` are history variables: how often the
  dispatcher has ended, how many matches have found a pod without an IP, how often a
  probe has closed a channel under a handler, and how many matches of a pairing were
  published before `matches.ondeck` existed. What a crash costs is bounded by
  them, not by the faults alone: a pod without an IP ends the dispatcher again with
  every match against its bot, and there may be many of those.
* Malformed messages are not modelled: the only producers serialise the same
  pydantic models that the consumers parse.

`ondeck_handler`'s match is one step here, because `MatchRunner` shows that it ends
with a result or an exception.

`Tournament` knows neither queues nor handlers: bots join, pairings are scheduled,
lie on the deck and get results, a bot counts as entered when it has been scheduled
against all entered before it, and an interruption loses or repeats one match.
The refinement maps the ready bots to its field, those whose announcement the
scheduler acked to the entered ones, what was published to what is scheduled, and
what waits in `matches.ondeck` or is in `ondeck_handler`'s hands unrecorded to the
deck, which is open once `matches.ondeck` is declared.

### Submission

One record per request holds the handler's locals; each `await` on the database
or the broker is an action. PostgreSQL runs each query on the rows committed then
(READ COMMITTED), and the unique index on `versioned_name` is the only thing that
refuses an insert. The web process has one `RabbitMQQueue`, whose attributes are
the set `client`: its connection, channel and exchange are set at three different
awaits of whichever upload comes first, and the others look at the first only;
`Client0` says whether a run begins with web just started or connected. A
name is a stem and the `V<digits>` suffixes after it, so that
`versioned_name` is modelled by what it does and the collision that the reserved
suffix prevents is expressible. A browser's jar is replaced by the cookie of the
answer, which was computed from the cookie of the request. `Owners` of a name are
the tokens of its rows and of the uploads that are about to insert one.

### Play

`page` is the state object of `play.mjs` with the caption by its kind, and the
request it awaits; `turn` are the handlers behind it; `queue` is the line at the
single-threaded turn server, in which a match may stand as well. Clicks, reloads
and answers interleave freely. Reloading leaves the handler running and its
client `"gone"`: the server runs the bot for it all the same. Time is reduced to
whether the run of the bot is fast or slow; a client gives up only while a slow
run keeps it waiting, whoever that run is for. A text has a flag for whether
its lines end in newlines: the server splits with `splitlines()`, the page at `"\n"`,
so a board separated by other line boundaries is accepted by the server and makes
`checkWinner` raise in the page, which shows the exception as the end of the game.
The judgement of the bot (`validate_one_symbol_placed`) and the winner
(`checkWinner`) are written again from their own sources and compared with
`Engine`'s through `SameJudgement` and the refinement.

### Health

A probe runs its checks in order. A call of a consumer has a connection, a reply
queue and a future; `late` says that the timer of `wait_for` has fired, after which
the task gets the `TimeoutError` even if the reply arrives before it runs
(`asyncio.wait_for` since Python 3.12). The consumer's echo handler runs on the
channel its work arrives on, and RabbitMQ closes a channel on which a missing
queue is declared passively: its unacknowledged deliveries, health requests and
work, go back to their queues while their handlers go on (`"stale"`, `live`).
`connect_robust` reopens the channel. An outage of the broker drops connections and
requests, and the queues too unless the disk survives. `seen` and `backed` are
history variables: what has been there since the current check began.

### Leaderboard and ExampleBots

The queries are set comprehensions over the two tables; ids stand for times and
for versioned names, NULL is an id that no bot has. The `WHERE` of each
lifetime query is a predicate on a match and a family (`lifetime_win`,
`lifetime_loss`), and `ORDER BY` is the number of lines before one (`place`). The
family page is two steps,
one per query, and rows are inserted in between; its links are left out. Each example bot is a function
from a board and a symbol to a board; the two perfect bots' `minimax` are recursive
functions over boards.

## 3. Runs

| Run | Checks | Instance |
|---|---|---|
| `match_runner` | `TypeOK`, `RecordIsAGame`, `WinnerMadeLastMove`, `NeverFallsOff`; `PlaysTicTacToe` (refinement); `Terminates` | every legal move and each kind of refused answer at every turn; first two moves up to symmetry (133 thousand states) |
| `match_offences` | `OffencesForfeit` fails | the same |
| `pipeline` | `TypeOK`, `SchedulingBounded`, `MatchesAccounted`, `StopsBounded`, `PairsCovered`; `PlaysTournament` (refinement) | two bots, a broker that knows `matches.build` only, one fault of any kind or one probe that closes a channel (1.46 million states up to symmetry) |
| `pipeline_live` | `EveryPairPlays` | two bots, queues declared, the scheduler killed or an upload's enqueueing failing, once (197 thousand states) |
| `pipeline_killed` | `ReadyBotsArePaired` fails | two bots, queues declared, the dispatcher killed once |
| `submission` | `TypeOK`, `VersionsContiguous`, `ConflictOnlyInFamily`, `CookieBacked`, `BuildsHaveRows`, `SomeoneConnects`; `OwnersFixed`, `EveryUploadEnds` | three requests, two browsers, names Foo, Bar and FooV2, one failure (556 thousand states) |
| `submission_lock` | `NameLocked` fails | two requests, two browsers, no failure |
| `submission_cookie` | `ClaimerHasCookie` fails | two requests of one browser, broker connected, no failure |
| `play` | `TypeOK`, `PendingTurnIsCurrent`, `SameJudgement`; `PageIsGame` (refinement), `TurnEnds` | two moves to choose from up to the fourth move and each kind of refused answer, two requests under way, two loads of the page, one match, one fault (204 thousand states) |
| `health` | `TypeOK`, `HealthyWasHealthy`, `ResolvedOnce`; `ProbeAnswered` | one probe of any service, the dispatcher running and the scheduler not yet, one outage or crash (188 thousand states) |
| `leaderboard` | `StatsAddUp`, `LifetimeBalances`, `WinnersEarnedIt`, `OneLinePerFamily`, `FamilyPageListsWhatItCounts`; `UploadKeepsLifetime` | three bots of two families, two matches with any result (334 thousand states) |
| `example_bots` | `PerfectNeverLoses`, `LosesAsMeant` | everything: each bot in both roles against every opponent |

Why the bounds are enough for the interesting cases. *Matches*: a game has at most
nine turns and the run has all of them; the openings left out are rotations and
reflections of those kept, or corner and edge openings whose second move differs,
and the theorems below cover them anyway. *Pipeline*: all interaction is between a
bot and one other (or itself), two bots being ready, announced and matched at
every relative time; one fault reaches a crash during the recovery from a crash,
which is where the factor two in `StopsBounded` comes from (a dispatcher killed
while a pod is being built raises again when the message is redelivered, and may
take a match with it). *Submission*: two requests race, the third comes after the
race or between its steps. *Pipeline on a new broker*: the queues between the
consumers come to exist when their readers start, before or after anything is
published to them, so `pipeline` has the dropped messages and the closed channels
together with everything that a fault does before, between and after the starts. The
constraint `OneMishap` stops at the first fault or closing; a closing that meets a
fault, and any number of both, are left to the theorems of section 4, which hold
for every set of queues declared at the start. *Play*: two loads are enough
for an abandoned request to stand in the line before, or be answered during, the
next game; one match is enough for a client the page does not know of. *Health*:
every call has a connection and a reply queue of its own, so probes meet only in a
consumer's queue, where a request behind another looks like one whose consumer is
slow; a probe of the dispatcher makes two calls, one after the other, and the
replies to the first can arrive during the second. *Leaderboard*: two families of
which one may have two versions give every relation between the two sides of a
match (the same bot, the same family, two families); sums are over single matches,
two suffice for a sum of different terms.

`leaderboard` checks for deadlock: a page can always be read. The other runs say
`CHECK_DEADLOCK FALSE` because a finished match, an idle pipeline, answered
requests and answered probes are legitimate ends.

### Fairness

*MatchRunner*: weak fairness of the whole call: it runs in an executor thread, and
the wait for a turn has a limit; the lookup of the pods (`get_pod_ip`) has none, and it is
assumed that the Kubernetes API answers or the connection to it breaks. *Pipeline*: weak fairness of each consumer's
steps, of web's enqueueing after the commit, and of starting a consumer: the event
loop runs a ready coroutine, and a Deployment restarts its container. Nothing
makes a user upload, a fault happen, a probe come or a pod start, except that a
starting pod which does not fail answers in the end; the Kubernetes API, the broker
and Postgres are assumed to answer or to fail. *Submission*: weak fairness of each
request's handler. *Play*: weak fairness of each handler, which runs in a thread
of the pool, with a limit on the wait for the pod and, again, the assumption that the
Kubernetes API answers the lookup before it, and of the turn server, which kills a bot
after ten seconds; nothing makes the human click or the match ask. *Health*: weak
fairness of each probe alone (the timer of `wait_for` fires, a call into a library
returns or raises); nothing is assumed of the consumers, so `ProbeAnswered` holds
for consumers that never answer. `EveryPairPlays` is claimed only for kills of the
scheduler: it is false under kills of the dispatcher
(`pipeline_killed`) and from a new broker, which drops announcements.

### What the failing runs show

1. `match_offences`: README.md:45-50 lists the offences for which a bot "forfeits the
   match immediately". In the trace X prints a legal board and ends with an unhandled
   exception, the turn server ignores the exit status
   (`bot-runner-images/python/turn_server.py:40`) and the match goes on; then O exceeds
   the time limit, and the client's `TimeoutError` leaves the runner and ends the
   dispatcher (`dispatcher/match_runner.py:88`). Nobody has forfeited.
2. `pipeline_killed`: a dispatcher killed between `set_pod_ready` and the
   announcement leaves a ready bot that nobody pairs.
3. `submission_lock`: two simultaneous first uploads of a name both own it. The race
   is over with the first row: `OwnersFixed` says that nobody joins the owners later.
4. `submission_cookie`: two overlapping uploads of one browser lose a cookie: the
   later answer replaces the earlier's (`web/submit.py:110`).

### What the passing runs show beside

The models also have these behaviours, which no failing run is spent on:

* Two bots that become ready before either announcement is handled are paired
  twice in each role, although `match_scheduler/main.py:3` and `TODO.md:12` speak of one
  message per pairing. `SchedulingBounded` says how often at most.
* On a new broker, what pod_builder announces before match_scheduler has declared
  `matches.schedule` is dropped, and the ready bot never paired
  (`dispatcher/pod_builder.py:93`). Matches that precede the declaration of
  `matches.ondeck` are dropped as well; `MatchesAccounted` says that no others are.
* "A misbehaving health probe can't poison work traffic", says
  `messaging/health.py:8-10`. A probe of the dispatcher before match_scheduler has ever
  started closes the channel that pod_builder works on, and its message is
  delivered again while it is being handled. What this costs is bounded by
  `StopsBounded` and `SchedulingBounded`.
* Of the first two uploads after a start of web the second may find a connection
  without a channel: it fails with `AttributeError` when its row is committed, and the
  name is claimed without a build or a cookie (`messaging/rabbitmq.py:26`).
* If the first upload fails while it connects, the client stays half connected and
  every upload commits its row and fails until web is restarted
  (`messaging/rabbitmq.py:27`); `SomeoneConnects` shows that this takes a failure.
* A bot that separates its lines by other boundaries than newlines plays legal
  matches and forfeits at the play page (see Play).

## 4. Proofs

All theorems hold for every value of the constants: any `Outputs` in
`MatchRunner`, about which nothing is assumed; any set of bots, any declared
queues, any faults, any `MaxFaults` and any `MaxClosings` in `Pipeline`; any number of requests,
browsers and names in `Submission`, of page loads, requests, clicks and match turns
in `Play`, of probes in `Health`, of families, versions and matches in
`Leaderboard`. The named `ASSUME`s only say what kind of values the constants are,
that the values standing for "none" are none of the others, and, in `Play`, that a
bot prints text and that the human clicks cells of the page. All safety and action
properties that the passing runs check are proved, but for those of `ExampleBots`.

**Engine.** `RoundTrip`: `parse_board(board_to_str(b)) = b`. `AcceptedMove`: what
`validate_move` accepts puts the mover's symbol on one empty cell. `OutcomeOfMove`:
after such a move from an undecided board only the mover can own a line, so the
order of `WINNING_LINES` does not matter.

**MatchRunner.** `TypeCorrect`, `RecordCorrect`, `WinnerCorrect`, `LoopReturns` and
`Refinement` follow from one inductive invariant `IInv`. The properties are not
inductive themselves: that the loop returns needs that after *n* moves exactly
*n* cells are marked (so nine moves fill the board and `check_winner` decides),
and that the refinement's turn order agrees with the parity of the move number
needs the number of marks of each symbol; both need that the running position
is the last recorded board and undecided. `IInv` says that. `CallCounts`: a call
makes at most nineteen steps, whatever the bots answer, because each one leaves
fewer to make (`StepsLeft`).

**Pipeline.** `TypeCorrect`; `PairsCoveredCorrect` and `OnlyReadyBotsCorrect` follow
from `IInv`: only ready bots are in `matches.schedule`, in the scheduler's hands or
published (`ReadyInv`, `AnnouncedInv`), and a publishing scheduler has, for every
bot handled before, either still to publish its pairings or done so
(`ProgressInv`). The step that matters is the read of the ready bots, which
contains every handled bot because rows stay ready. A step outside the scheduler
only makes more bots ready, leaves the scheduler's handler alone or ends it
(`AsideStep`), which is why crashes do no harm. No run lists `OnlyReadyBots`: what
it says of publications is part of `PlaysTournament`.

**Pipeline, refinement** (`PipelineBoundsProofs`, on top of `IInv`).
`TournamentCorrect`: every step of the pipeline is a step of `Tournament` or
stutters on it (`TournamentStep`, by kind of step). What decides is what an
end of the dispatcher does to the deck, while it cuts off two handlers at once: it
loses the match in play, or puts back the one delivered again (`StopRefines`), and a match that
returns after its commit has a result already. The last needs that what
`ondeck_handler` acks is recorded, and that it meets ready bots only, so acks no
match unplayed (`OndeckInv`). `MatchesCorrect` then follows from the abstract step
(`Balance`), and from `dropped` growing exactly with what is published before
`matches.ondeck` exists (`DroppedStep`).

**Pipeline, bounds** (in the same module). Every way in which
the dispatcher can end has one shape (`Stop`), so the proofs treat it once
(`StepCases`). `SchedulingCorrect` rests on an amount that no step increases but a
fault or a probe that closes the scheduler's channel (`CountInv`): what has been published of a pairing, the announcements of its
bots that may still come or wait in the queue, and what the scheduler has in hand.
An announcement comes once because a pod is created once. `StopsCorrect` needs
`BuildInv` and `StopsInv`: beside what was counted, the dispatcher ends once for
each build that will find its pod created, and such a build exists only because an
earlier end or a probe has put it back, and once for a handler without its channel.
In terms of faults alone no bound on repeated or lost
matches holds for every number of bots: a single pod without an IP ends the
dispatcher with each match against its bot. This is why the bounds speak of `stops`.
`ResultsCorrect` puts the three consumers together. Let *repeats* be the faults and
the channels closed under the scheduler, *causes* the faults, the matches that found
a pod without an IP and the channels closed under pod_builder: a pairing has at most
2 + *repeats* + 2 *causes* rows (one fewer against itself). And while nothing has
failed, no match has found a pod without an IP and no probe has closed a channel,
every pairing of handled bots is on deck, in play, recorded or dropped on the way to
a queue that was not there, once or twice.

**Submission.** `VersionsContiguous` is not inductive, because `next_version` is
read before the insert. What holds all the time is that the version a handler
carries is at most one more than the versions there are; the index rejects those
that are taken, so an insert that succeeds is the next. That the index, which
compares `versioned_name`s, compares within a family (`ConflictsCorrect`) rests on the
reserved suffix: no row's base name ends in one (`RowsInv`). `CookiesCorrect` needs
that a handler's own copy of the cookie is backed by rows and that a handler past
the insert has a row with its token; `ConnectsCorrect` needs which of the client's
attributes a connecting handler has set (`HandlerInv`). `OwnersCorrect`: an upload
that resolves its owner while the name has rows gets the token of one
(`ResolveOwners`), and an insert makes an owner of nobody who was not about to be
one (`InsertOwners`). `UploadAdvances`: each step takes one upload forward, by ten
places at most in all, and moves no other, wherever it fails.

**Play.** `JudgesAgree`: `validate_one_symbol_placed` accepts exactly what
`validate_move` accepts, and with it `SameJudgementCorrect`; `checkWinner` on the page
agrees with the engine's `check_winner`. `PendingTurnCorrect` needs who may have a
request at the turn server (`QueueInv`: only the handler that the page waits for,
once, so no answer can reach another game), and `PageCorrect`, the refinement of
`TicTacToe` between two loads of the page, that the position is undecided and the
marks say whose turn it is (`PageInv`). `ServedInOrder`: a handler that waits stands in
the line at the turn server, nobody's step takes it back, a client's giving up
included, and each step of the server takes it forward (`Remaining`, `Approaches`).

**Health.** Between a check and what it vouches for lie a request, a run of
`on_message`, a reply and a future. `IInv` says of each that what it has found so
far was there during that check, if the check it names is still under way
(`RequestInv`, `ServingInv`, `RepliesInv`, `CallInv`), and that the checks before it
have failed or saw all they vouch for (`ProbeInv`). A request of an earlier check may
be served at any later time: its echo never names a current check.
`ResolvedCorrect` is about single steps, from the same invariant.
`AnswerNears`: a probe makes at most nine steps, each takes it forward, and nothing
that a consumer, the broker or another probe does takes it back (`Rank`).

**Leaderboard.** `TableInv`: rows are recorded with bots that are there and the
winner that the result says, and a later version of a family is a higher one. The
rest compares sets: the columns of a version split its matches
(`ColumnsSplit`); each lifetime win between two families is one lifetime loss, by
a bijection through the match (`Balance`); `place` numbers the latest versions from
1 to *n* (`PlaceFacts`), because the order of the lines is total, so that
`leaderboard` lists each once and in order (`LinesFacts`). `PageInv` carries what the
first query of the family page counted over to its second: rows are only added.

**Only model-checked.** Liveness: `Terminates`, `EveryPairPlays`, `EveryUploadEnds`,
`TurnEnds`, `ProbeAnswered` (they need fairness and ENABLED, which the installed
provers do not handle). For four of them a measure is proved that goes down with
every step of the actor and is raised by nobody (`CallCounts`, `UploadAdvances`,
`ServedInOrder` for the wait at the turn server, `AnswerNears`), so that TLC is left
with a step being possible and taken; for `EveryPairPlays`, whose consumers start again after a failure, there is none. The properties of `ExampleBots`, which are about finitely
many games and which its run covers completely; its `minimax` computes by
recursion over boards, which is induction over data.

## 5. Not modelled, and the plan

*Not modelled.* `scripts/reset_db.py` and `seed_example_bots.py` against the running
pipeline: rows, messages and pods would disappear under the consumers, while the
proofs about `Pipeline` rest on rows that stay (what a reset does to a game at the
play page is in `Play`). The loss of the broker's queues in `Pipeline` (it is in
`Health`). The match player, whose state is a position and a timer in one page.
The dashboard's WebSocket and `live-poll.js`, which display what the server sends
and keep nothing. Plain listings. `close` of the broker client at shutdown.
`messaging/connection.py` waits for the broker at the start; `messaging/routing.py`
has no caller. Page layout and templates, logging, migrations, Kubernetes
manifests (their facts are assumptions above), `scripts/export_bots.py` and
`scripts/js_coverage_report.py`.

*Next*: the exactness of `StopsBounded` and `SchedulingBounded`, that is, runs of
the code that reach the bounds, so that no smaller ones hold; a measure for
`EveryPairPlays`, over the announcements and pairings that are still to be handled.
