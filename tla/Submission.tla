----------------------------- MODULE Submission -----------------------------
(***************************************************************************)
(* Uploads of bots: concurrent runs of handle_submission (web/submit.py)   *)
(* over the bots table (entities/bot/repository.py), and the ownership     *)
(* cookie that travels between the site and the browsers.                  *)
(*                                                                         *)
(* The handler awaits the database and the broker, so requests interleave  *)
(* at every query.  The session reads committed rows, each query afresh.   *)
(* A name is a stem and the "V<digits>" suffixes that follow it: "FooV2"   *)
(* has the stem "Foo" and the one suffix 2.                                *)
(* A fresh owner token is the id of the request that drew it.              *)
(***************************************************************************)
EXTENDS Integers, Sequences, FiniteSetsExt

CONSTANTS
  Requests,    \* POST /submit requests
  Browsers,    \* the browsers that send them
  Names,       \* names written in the docstrings of the uploaded sources
  NoBrowser,   \* stands for the browser of a request that is not sent yet
  NoToken,     \* Python's None
  Client0,     \* what the RabbitMQQueue has at the start: nothing, or everything
  MaxFaults    \* requests that may fail or lose their response

ASSUME NamesAssumption ==
  \A n \in Names : n \in [stem : STRING \ {""}, suffixes : Seq(Nat)]

ASSUME TokensAssumption == NoToken \notin Requests /\ NoBrowser \notin Browsers

ASSUME FaultsAssumption == MaxFaults \in Nat

Attributes == {"_connection", "_channel", "_events_exchange"}

\* Either nothing was published before, or the connection is complete.
ASSUME ClientAssumption == Client0 \in {{}, Attributes}

VARIABLES
  rows,      \* the bots table
  jar,       \* each browser's cookie ttt_owned_bots: a token per name
  req,       \* the local state of each handler
  client,    \* the attributes of the process's RabbitMQQueue that are not None
  builds,    \* requests whose BuildPodMessage is enqueued
  faults

vars == <<rows, jar, req, client, builds, faults>>

\* What extract_bot_name returns for a source without a name.
NoName == [stem |-> "", suffixes |-> <<>>]

Tokens == Requests \cup {NoToken}

EmptyCookie == [n \in Names |-> NoToken]

\* "new": not sent yet.  "resolve", "version", "insert", "enqueue", "connect",
\* "channel", "declare", "event": the handler's next await.  "sent": answered, with a cookie.  "done": the
\* browser has the answer.  "rejected": answered with an error page.
\* "conflict": the unique index refused the row, a 500.  "failed": a later
\* step raised or the answer got lost.
Steps == {"new", "resolve", "version", "insert", "enqueue", "connect",
          "channel", "declare", "event", "sent", "done",
          "rejected", "conflict", "failed"}

Row == [base_name : Names, version : Nat \ {0}, owner_token : Requests,
        by : Requests]

TypeOK ==
  /\ rows \subseteq Row
  /\ jar \in [Browsers -> [Names -> Tokens]]
  /\ req \in [Requests -> [pc : Steps, browser : Browsers \cup {NoBrowser},
                           bot_name : Names \cup {NoName},
                           owned : [Names -> Tokens], owner_token : Tokens,
                           version : Nat]]
  /\ client \subseteq Attributes
  /\ builds \subseteq Requests
  /\ faults \in 0 .. MaxFaults

versioned_name(base_name, version) ==
  IF version = 1 THEN base_name
                 ELSE [base_name EXCEPT !.suffixes = Append(@, version)]

Family(base_name) == {row \in rows : row.base_name = base_name}

\* Faulty variant: the version suffix is not reserved.
validate_bot_name_unreserved(bot_name) == bot_name # NoName

\* Whether _validate_bot_name accepts: there is a name, and it does not end
\* in the suffix that versioned_name produces.
validate_bot_name(bot_name) ==
  /\ bot_name # NoName
  /\ bot_name.suffixes = <<>>

Goto(r, step) == req' = [req EXCEPT ![r].pc = step]

NewRequest(b) == [pc |-> "new", browser |-> b, bot_name |-> NoName,
                  owned |-> EmptyCookie, owner_token |-> NoToken, version |-> 0]

\* The handler is over, and with it its local state.
End(r, step) ==
  req' = [req EXCEPT ![r] = [NewRequest(req[r].browser) EXCEPT !.pc = step]]

Init ==
  /\ rows = {}
  /\ jar = [b \in Browsers |-> EmptyCookie]
  /\ req = [r \in Requests |-> NewRequest(NoBrowser)]
  /\ client = Client0
  /\ builds = {}
  /\ faults = 0

\* A browser uploads a source: its name, or none, and a runtime key that is
\* known or not.  The cookie is read now; the two validations come first.
Submit(r, browser, bot_name, runtimeKnown) ==
  /\ req[r].pc = "new"
  /\ IF validate_bot_name(bot_name) /\ runtimeKnown
       THEN req' = [req EXCEPT ![r].pc = "resolve", ![r].browser = browser,
                               ![r].bot_name = bot_name, ![r].owned = jar[browser]]
       ELSE End(r, "rejected")
  /\ UNCHANGED <<rows, jar, client, builds, faults>>

\* Faulty variant: a name owned by someone else is looked up again and again.
ResolveOwner_retry(r) ==
  /\ req[r].pc = "resolve"
  /\ LET family == Family(req[r].bot_name)
         own == req[r].owned[req[r].bot_name] IN
     \/ /\ family = {}
        /\ req' = [req EXCEPT ![r].pc = "version", ![r].owner_token = r]
     \/ \E row \in family :
          /\ own = row.owner_token
          /\ req' = [req EXCEPT ![r].pc = "version", ![r].owner_token = own]
  /\ UNCHANGED <<rows, jar, client, builds, faults>>

\* Faulty variant: a browser without a token for the name is taken for new.
ResolveOwner_fresh(r) ==
  /\ req[r].pc = "resolve"
  /\ LET family == Family(req[r].bot_name)
         own == req[r].owned[req[r].bot_name] IN
     \/ /\ family = {} \/ own = NoToken
        /\ req' = [req EXCEPT ![r].pc = "version", ![r].owner_token = r]
     \/ \E row \in family :
          IF own = row.owner_token
            THEN req' = [req EXCEPT ![r].pc = "version", ![r].owner_token = own]
            ELSE End(r, "rejected")
  /\ UNCHANGED <<rows, jar, client, builds, faults>>

\* _resolve_owner_token: any row of the family decides (limit(1), unordered).
ResolveOwner(r) ==
  /\ req[r].pc = "resolve"
  /\ LET family == Family(req[r].bot_name)
         own == req[r].owned[req[r].bot_name] IN
     \/ /\ family = {}
        /\ req' = [req EXCEPT ![r].pc = "version", ![r].owner_token = r]
     \/ \E row \in family :
          IF own = row.owner_token
            THEN req' = [req EXCEPT ![r].pc = "version", ![r].owner_token = own]
            ELSE End(r, "rejected")
  /\ UNCHANGED <<rows, jar, client, builds, faults>>

\* Faulty variant: the highest version itself.
next_version_same(base_name) ==
  Max({row.version : row \in Family(base_name)} \cup {0})

\* BotRepository.next_version: one more than the highest version.
next_version(base_name) ==
  Max({row.version : row \in Family(base_name)} \cup {0}) + 1

ReadNextVersion(r) ==
  /\ req[r].pc = "version"
  /\ req' = [req EXCEPT ![r].pc = "insert",
                        ![r].version = next_version(req[r].bot_name)]
  /\ UNCHANGED <<rows, jar, client, builds, faults>>

NewRow(r) == [base_name |-> req[r].bot_name, version |-> req[r].version,
              owner_token |-> req[r].owner_token, by |-> r]

NameTaken(r) ==
  \E row \in rows : versioned_name(row.base_name, row.version)
                      = versioned_name(req[r].bot_name, req[r].version)

\* Faulty variant: no unique index on versioned_name.
CreateBot_no_index(r) ==
  /\ req[r].pc = "insert"
  /\ rows' = rows \cup {NewRow(r)}
  /\ Goto(r, "enqueue")
  /\ UNCHANGED <<jar, client, builds, faults>>

\* Faulty variant: the IntegrityError is swallowed.
CreateBot_swallowed(r) ==
  /\ req[r].pc = "insert"
  /\ Goto(r, "enqueue")
  /\ rows' = IF NameTaken(r) THEN rows ELSE rows \cup {NewRow(r)}
  /\ UNCHANGED <<jar, client, builds, faults>>

\* BotRepository.create inserts and commits; versioned_name is unique.
CreateBot(r) ==
  /\ req[r].pc = "insert"
  /\ IF NameTaken(r)
       THEN Goto(r, "conflict") /\ UNCHANGED rows
       ELSE Goto(r, "enqueue") /\ rows' = rows \cup {NewRow(r)}
  /\ UNCHANGED <<jar, client, builds, faults>>

\* enqueue_build_pod: the first call finds no connection and opens it.  One
\* that finds a connection uses the channel, and raises AttributeError when
\* whoever opened the connection has not got that far.
EnqueueBuildPod(r) ==
  /\ req[r].pc = "enqueue"
  /\ \/ "_connection" \notin client /\ Goto(r, "connect") /\ UNCHANGED builds
     \/ "_channel" \in client /\ Goto(r, "event") /\ builds' = builds \cup {r}
     \/ /\ "_connection" \in client /\ "_channel" \notin client
        /\ End(r, "failed")
        /\ UNCHANGED builds
  /\ UNCHANGED <<rows, jar, client, faults>>

\* The awaits of _ensure_connected; the message follows the last one.
OpenConnection(r) ==
  /\ req[r].pc = "connect"
  /\ client' = client \cup {"_connection"}
  /\ Goto(r, "channel")
  /\ UNCHANGED <<rows, jar, builds, faults>>

OpenChannel(r) ==
  /\ req[r].pc = "channel"
  /\ client' = client \cup {"_channel"}
  /\ Goto(r, "declare")
  /\ UNCHANGED <<rows, jar, builds, faults>>

\* Faulty variant: the exchange is not kept.
DeclareExchange_unkept(r) ==
  /\ req[r].pc = "declare"
  /\ builds' = builds \cup {r}
  /\ Goto(r, "event")
  /\ UNCHANGED <<rows, jar, client, faults>>

DeclareExchange(r) ==
  /\ req[r].pc = "declare"
  /\ client' = client \cup {"_events_exchange"}
  /\ builds' = builds \cup {r}
  /\ Goto(r, "event")
  /\ UNCHANGED <<rows, jar, faults>>

\* publish_event, which raises when there is no exchange yet, then
\* _success_response.
PublishEvent(r) ==
  /\ req[r].pc = "event"
  /\ IF "_events_exchange" \in client THEN Goto(r, "sent") ELSE End(r, "failed")
  /\ UNCHANGED <<rows, jar, client, builds, faults>>

\* Faulty variant: the cookie names the request's token for every name.
ReceiveCookie_all(r) ==
  /\ req[r].pc = "sent"
  /\ jar' = [jar EXCEPT ![req[r].browser] = [n \in Names |-> req[r].owner_token]]
  /\ End(r, "done")
  /\ UNCHANGED <<rows, client, builds, faults>>

\* The answer's cookie is what the request carried and the uploaded name; the
\* browser replaces what it has by it.
ReceiveCookie(r) ==
  /\ req[r].pc = "sent"
  /\ jar' = [jar EXCEPT ![req[r].browser] =
               [req[r].owned EXCEPT ![req[r].bot_name] = req[r].owner_token]]
  /\ End(r, "done")
  /\ UNCHANGED <<rows, client, builds, faults>>

\* The database, the broker or the web process fails under the handler, or
\* the answer does not reach the browser.
RequestFails(r) ==
  /\ req[r].pc \in {"resolve", "version", "insert", "enqueue", "connect",
                   "channel", "declare", "event", "sent"}
  /\ faults < MaxFaults
  /\ faults' = faults + 1
  /\ End(r, "failed")
  /\ UNCHANGED <<rows, jar, client, builds>>

Handle(r) ==
  \/ ResolveOwner(r)
  \/ ReadNextVersion(r)
  \/ CreateBot(r)
  \/ EnqueueBuildPod(r) \/ OpenConnection(r) \/ OpenChannel(r) \/ DeclareExchange(r)
  \/ PublishEvent(r)
  \/ ReceiveCookie(r)

Next ==
  \E r \in Requests :
    \/ \E b \in Browsers, n \in Names \cup {NoName}, known \in BOOLEAN :
         Submit(r, b, n, known)
    \/ Handle(r)
    \/ RequestFails(r)

Spec == Init /\ [][Next]_vars

\* The event loop runs every handler that can go on.
FairSpec == Spec /\ \A r \in Requests : WF_vars(Handle(r))
-----------------------------------------------------------------------------
\* The versions of a family are 1, 2, ..., n, each once, however the uploads
\* interleave: next_version is read before the insert, and the unique index
\* on versioned_name turns a stale answer into a conflict.
VersionsContiguous ==
  \A n \in Names :
    {row.version : row \in Family(n)} = 1 .. Cardinality(Family(n))

\* The unique index refuses a row only when another upload of the same family
\* took the version: families never block each other, because a name that
\* looks like a later version of another is not accepted.
ConflictOnlyInFamily ==
  \A r \in Requests :
    req[r].pc = "conflict" =>
      \E row \in rows : /\ row.base_name = req[r].bot_name
                        /\ row.version = req[r].version

\* A token in a browser's cookie is the token of a row of that name: a cookie
\* never outruns the database.
CookieBacked ==
  \A b \in Browsers, n \in Names :
    jar[b][n] # NoToken =>
      \E row \in Family(n) : row.owner_token = jar[b][n]

\* Only a committed bot is built: its BuildPodMessage finds the row.
BuildsHaveRows == \A r \in builds : \E row \in rows : row.by = r

\* Unless a request has failed, a client that is half connected has an upload
\* that is about to complete it.  (When that upload fails the client stays as
\* it is, and every later upload commits its row and then fails.)
SomeoneConnects ==
  faults = 0 /\ client \notin {{}, Attributes} =>
    \E r \in Requests : req[r].pc \in {"channel", "declare"}

\* The owners of a name: the tokens of its rows, and those of the uploads that
\* are about to add one.
Owners(n) ==
  {row.owner_token : row \in Family(n)} \cup
  {req[r].owner_token :
     r \in {q \in Requests : req[q].pc \in {"version", "insert"} /\ req[q].bot_name = n}}

\* README.md:76, as far as it is true: from the first row of a name on, nobody
\* becomes an owner of it who is not one already, or was not racing for it.
OwnersFixed ==
  [][\A n \in Names : Family(n) # {} => Owners(n)' \subseteq Owners(n)]_vars

\* Every upload that was sent is answered, or fails: again and again there is
\* a time when none is under way.
EveryUploadEnds ==
  []<>(\A r \in Requests :
         req[r].pc \in {"new", "done", "rejected", "conflict", "failed"})

\* README.md:76 has it that "without the cookie, that name is locked to its
\* original owner".
NameLocked ==
  \A n \in Names : \A r1, r2 \in Family(n) : r1.owner_token = r2.owner_token

\* README.md:76 has it that "the first upload of a given name claims it and
\* the site sets a cookie marking you as the owner": once all of a browser's
\* uploads have been answered, it holds a token of every name it claimed.
ClaimerHasCookie ==
  \A b \in Browsers :
    (\A r \in Requests : req[r].browser = b =>
       req[r].pc \in {"new", "done", "rejected", "conflict", "failed"})
    => \A row \in rows : req[row.by].browser = b =>
         jar[b][row.base_name] # NoToken

=============================================================================
