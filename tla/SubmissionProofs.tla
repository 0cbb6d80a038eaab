-------------------------- MODULE SubmissionProofs --------------------------
(***************************************************************************)
(* Submission proved for any number of requests, browsers and names.       *)
(*                                                                         *)
(* VersionsContiguous is not inductive by itself: next_version is read     *)
(* before the row is inserted, and in between other uploads of the family  *)
(* may have been committed.  What holds all the time is that the version a *)
(* handler carries is at most one more than the versions there are         *)
(* (HandlerInv), so that one which the unique index lets through is the    *)
(* next.  That the index compares within a family rests on the reserved    *)
(* suffix: no row's base name ends in one (RowsInv).                       *)
(***************************************************************************)
EXTENDS Submission, FiniteSetTheorems, TLAPS

\* A handler past the validations; past _resolve_owner_token; past the insert.
Accepted == {"resolve", "version", "insert", "enqueue", "connect", "channel",
             "declare", "event", "sent", "conflict"}
Owner == Accepted \ {"resolve"}
Committed == {"enqueue", "connect", "channel", "declare", "event", "sent"}

Backed(cookie) ==
  \A n \in Names : cookie[n] # NoToken =>
    \E row \in Family(n) : row.owner_token = cookie[n]

RowsInv ==
  /\ IsFiniteSet(rows)
  /\ \A row \in rows : row.base_name.suffixes = <<>>

HandlerInv(r) ==
  /\ req[r].pc \in Accepted => /\ req[r].bot_name \in Names
                               /\ req[r].bot_name.suffixes = <<>>
                               /\ req[r].browser \in Browsers
  /\ req[r].pc \in Owner => req[r].owner_token \in Requests
  /\ req[r].pc = "insert" =>
       req[r].version \in 1 .. (Cardinality(Family(req[r].bot_name)) + 1)
  /\ req[r].pc = "conflict" =>
       \E row \in rows : /\ row.base_name = req[r].bot_name
                         /\ row.version = req[r].version
  /\ req[r].pc \in Committed =>
       \E row \in rows : /\ row.by = r
                         /\ row.base_name = req[r].bot_name
                         /\ row.owner_token = req[r].owner_token
  /\ Backed(req[r].owned)
  /\ req[r].pc = "channel" => "_connection" \in client
  /\ req[r].pc = "declare" => {"_connection", "_channel"} \subseteq client

IInv ==
  /\ TypeOK
  /\ RowsInv
  /\ \A r \in Requests : HandlerInv(r)
  /\ VersionsContiguous
  /\ CookieBacked
  /\ BuildsHaveRows
  /\ SomeoneConnects
-----------------------------------------------------------------------------
Handler == [pc : Steps, browser : Browsers \cup {NoBrowser},
            bot_name : Names \cup {NoName}, owned : [Names -> Tokens],
            owner_token : Tokens, version : Nat]

\* What a step of the handler to another place changes.
LEMMA GotoFacts ==
  ASSUME TypeOK, NEW r \in Requests, NEW step \in Steps, Goto(r, step)
  PROVE  /\ req' \in [Requests -> Handler]
         /\ \A q \in Requests : q # r => req'[q] = req[q]
         /\ req'[r].pc = step
         /\ req'[r].browser = req[r].browser /\ req'[r].bot_name = req[r].bot_name
         /\ req'[r].owned = req[r].owned /\ req'[r].owner_token = req[r].owner_token
         /\ req'[r].version = req[r].version
<1>1. req \in [Requests -> Handler] /\ req[r] \in Handler
  BY DEF TypeOK, Handler
<1>2. [req[r] EXCEPT !.pc = step] \in Handler
  BY <1>1 DEF Handler
<1>3. req' = [req EXCEPT ![r] = [req[r] EXCEPT !.pc = step]]
  BY <1>1 DEF Goto
<1> QED
  BY <1>1, <1>2, <1>3 DEF Handler

\* What the end of a handler changes.
LEMMA EndFacts ==
  ASSUME TypeOK, NEW r \in Requests, NEW step \in Steps, End(r, step)
  PROVE  /\ req' \in [Requests -> Handler]
         /\ \A q \in Requests : q # r => req'[q] = req[q]
         /\ req'[r].pc = step
         /\ req'[r].owned = EmptyCookie
<1>1. req \in [Requests -> Handler] /\ req[r].browser \in Browsers \cup {NoBrowser}
  BY DEF TypeOK, Handler
<1> DEFINE h == [pc |-> step, browser |-> req[r].browser, bot_name |-> NoName,
                 owned |-> EmptyCookie, owner_token |-> NoToken, version |-> 0]
<1>2. h \in Handler
  BY <1>1 DEF Handler, EmptyCookie, Tokens
<1>3. [NewRequest(req[r].browser) EXCEPT !.pc = step] = h
  BY DEF NewRequest
<1>4. req' = [req EXCEPT ![r] = h]
  BY <1>3 DEF End
<1> QED
  BY <1>1, <1>2, <1>4

\* The empty cookie needs no row.
LEMMA EmptyBacked == Backed(EmptyCookie) /\ Backed(EmptyCookie)'
BY DEF Backed, EmptyCookie

\* Families are finite.
LEMMA FamilyFinite ==
  ASSUME IsFiniteSet(rows), NEW n
  PROVE  IsFiniteSet(Family(n)) /\ Cardinality(Family(n)) \in Nat
<1>1. Family(n) \in SUBSET rows
  BY DEF Family
<1>2. IsFiniteSet(Family(n))
  BY <1>1, FS_Subset
<1> QED
  BY <1>2, FS_CardinalityType

\* Rows and connections are only added, so what a handler relies on stays.
LEMMA OthersKept ==
  ASSUME IInv, rows \subseteq rows', IsFiniteSet(rows'), client \subseteq client',
         NEW q \in Requests, req'[q] = req[q]
  PROVE  HandlerInv(q)'
<1> DEFINE n == req[q].bot_name
<1>1. HandlerInv(q)
  BY DEF IInv
<1>2. Backed(req[q].owned)'
  BY <1>1 DEF HandlerInv, Backed, Family
<1>3. ASSUME req[q].pc = "insert"
      PROVE  req[q].version \in 1 .. (Cardinality(Family(n)') + 1)
  <2>1. Family(n)' \in SUBSET rows' /\ Family(n) \in SUBSET Family(n)'
    BY DEF Family
  <2>2. IsFiniteSet(Family(n)') /\ Cardinality(Family(n)') \in Nat
    BY <2>1, FS_Subset, FS_CardinalityType
  <2>3. Cardinality(Family(n)) <= Cardinality(Family(n)')
    BY <2>1, <2>2, FS_Subset
  <2>4. Cardinality(Family(n)) \in Nat
    BY FamilyFinite DEF IInv, RowsInv
  <2> QED
    BY <1>1, <1>3, <2>2, <2>3, <2>4 DEF HandlerInv
<1>4. req'[q].bot_name = n
  OBVIOUS
<1> QED
  BY <1>1, <1>2, <1>3, <1>4 DEF HandlerInv

\* A step of request r that adds no row: what remains to be shown of it.
LEMMA QuietStep ==
  ASSUME IInv, NEW r \in Requests, TypeOK', rows' = rows, client \subseteq client',
         \A q \in Requests : q # r => req'[q] = req[q],
         HandlerInv(r)',
         CookieBacked',
         builds' = builds \/ (builds' = builds \cup {r} /\ req[r].pc \in Committed),
         \/ /\ client' = client /\ faults' = faults
            /\ req[r].pc \notin {"channel", "declare"}
         \/ faults' # 0
         \/ req'[r].pc \in {"channel", "declare"}
         \/ client' = Attributes
  PROVE  IInv'
<1>1. \A q \in Requests : HandlerInv(q)'
  BY OthersKept DEF IInv, RowsInv
<1>2. BuildsHaveRows'
  BY DEF IInv, BuildsHaveRows, HandlerInv
<1>3. VersionsContiguous' /\ RowsInv'
  BY DEF IInv, VersionsContiguous, RowsInv, Family
<1>4. SomeoneConnects'
  BY DEF IInv, SomeoneConnects
<1> QED
  BY <1>1, <1>2, <1>3, <1>4 DEF IInv

\* The cookies stay as they are, and so do the rows.
LEMMA JarKept ==
  ASSUME IInv, jar' = jar, rows' = rows
  PROVE  CookieBacked'
BY DEF IInv, CookieBacked, Family

\* The end of a handler needs nothing.
LEMMA EndStep ==
  ASSUME IInv, NEW r \in Requests, NEW step \in Steps \ (Accepted \cup Committed),
         End(r, step), rows' = rows, client' = client, jar' = jar, builds' = builds,
         faults' \in 0 .. MaxFaults,
         faults' # 0 \/ (faults' = faults /\ req[r].pc \notin {"channel", "declare"})
  PROVE  IInv'
<1>1. TypeOK
  BY DEF IInv
<1>2. /\ req' \in [Requests -> Handler]
      /\ \A q \in Requests : q # r => req'[q] = req[q]
      /\ req'[r].pc = step /\ req'[r].owned = EmptyCookie
  BY <1>1, EndFacts
<1>3. TypeOK'
  BY <1>1, <1>2 DEF TypeOK, Handler
<1>4. HandlerInv(r)'
  BY <1>2, EmptyBacked DEF HandlerInv, Accepted, Owner, Committed, Backed
<1> QED
  BY <1>2, <1>3, <1>4, QuietStep, JarKept

\* A versioned name has its base name's stem, and the version as its suffix.
LEMMA VersionedName ==
  ASSUME NEW a \in Names, a.suffixes = <<>>, NEW v \in Nat
  PROVE  /\ a = [stem |-> a.stem, suffixes |-> <<>>]
         /\ versioned_name(a, v).stem = a.stem
         /\ versioned_name(a, v).suffixes = IF v = 1 THEN <<>> ELSE <<v>>
<1>1. a \in [stem : STRING \ {""}, suffixes : Seq(Nat)]
  BY NamesAssumption
<1>2. Append(a.suffixes, v) = <<v>>
  OBVIOUS
<1>3. a = [stem |-> a.stem, suffixes |-> <<>>]
  BY <1>1
<1>4. CASE v = 1
  BY <1>3, <1>4 DEF versioned_name
<1>5. CASE v # 1
  <2>1. versioned_name(a, v) = [a EXCEPT !.suffixes = <<v>>]
    BY <1>2, <1>5 DEF versioned_name
  <2> QED
    BY <1>1, <1>3, <1>5, <2>1
<1> QED
  BY <1>4, <1>5

\* The unique index tells families apart: no base name ends in a suffix.
LEMMA VersionedNamesDiffer ==
  ASSUME NEW a \in Names, NEW b \in Names, a.suffixes = <<>>, b.suffixes = <<>>,
         NEW v \in Nat, NEW w \in Nat, versioned_name(a, v) = versioned_name(b, w)
  PROVE  a = b /\ v = w
<1>1. versioned_name(a, v).stem = a.stem /\ versioned_name(b, w).stem = b.stem
  BY VersionedName
<1>2. a = b
  <2>1. a.stem = b.stem
    BY <1>1
  <2> QED
    BY <2>1, VersionedName
<1>3. (IF v = 1 THEN <<>> ELSE <<v>>) = (IF w = 1 THEN <<>> ELSE <<w>>)
  BY VersionedName
<1>4. \A u, x \in Nat : <<u>> # <<>> /\ (<<u>> = <<x>> => u = x)
  OBVIOUS
<1> QED
  BY <1>2, <1>3, <1>4

\* next_version is one more than the number of versions.
LEMMA NextVersion ==
  ASSUME IInv, NEW n \in Names
  PROVE  next_version(n) = Cardinality(Family(n)) + 1
<1> DEFINE k == Cardinality(Family(n))
           S == {row.version : row \in Family(n)} \cup {0}
<1>1. k \in Nat
  BY FamilyFinite DEF IInv, RowsInv
<1>2. S = 0 .. k
  BY <1>1 DEF IInv, VersionsContiguous
<1> HIDE DEF S
<1>3. Max(S) \in S /\ \A y \in S : Max(S) >= y
  <2>1. k \in S /\ \A y \in S : k >= y
    BY <1>1, <1>2
  <2> QED
    BY <2>1 DEF Max
<1>4. Max(S) = k
  BY <1>1, <1>2, <1>3
<1> QED
  BY <1>4 DEF next_version, S
-----------------------------------------------------------------------------
(* One lemma for each step of a request. *)

\* The cookie the request carries is backed because the browser's is.
LEMMA SubmitStep ==
  ASSUME IInv, NEW r \in Requests, NEW b \in Browsers, NEW n \in Names \cup {NoName},
         NEW known \in BOOLEAN, Submit(r, b, n, known)
  PROVE  IInv'
<1> USE DEF Submit
<1>1. TypeOK /\ req[r].pc = "new"
  BY DEF IInv
<1>2. CASE ~(validate_bot_name(n) /\ known)
  <2>1. End(r, "rejected")
    BY <1>2
  <2> QED
    BY <1>1, <2>1, EndStep DEF TypeOK, Steps, Accepted, Committed
<1>3. CASE validate_bot_name(n) /\ known
  <2>1. n \in Names /\ n.suffixes = <<>>
    BY <1>3 DEF validate_bot_name
  <2> DEFINE h == [req[r] EXCEPT !.pc = "resolve", !.browser = b, !.bot_name = n,
                                 !.owned = jar[b]]
  <2>2. req[r] \in Handler /\ req \in [Requests -> Handler]
    BY <1>1 DEF TypeOK, Handler
  <2>3. /\ h \in Handler /\ h.pc = "resolve" /\ h.browser = b
        /\ h.bot_name = n /\ h.owned = jar[b]
    BY <1>1, <2>1, <2>2 DEF TypeOK, Handler, Steps
  <2>4. req' = [req EXCEPT ![r] = h]
    BY <1>3, <2>2
  <2> HIDE DEF h
  <2>5. req' \in [Requests -> Handler] /\ req'[r] = h
    BY <2>2, <2>3, <2>4
  <2>6. TypeOK'
    BY <1>1, <2>5 DEF TypeOK, Handler
  <2>7. Backed(jar[b])'
    BY DEF IInv, CookieBacked, Backed, Family
  <2>8. HandlerInv(r)'
    BY <2>1, <2>3, <2>5, <2>7 DEF HandlerInv, Accepted, Owner, Committed, Backed
  <2>9. \A q \in Requests : q # r => req'[q] = req[q]
    BY <2>2, <2>4
  <2> QED
    BY <1>1, <2>6, <2>8, <2>9, QuietStep, JarKept
<1> QED
  BY <1>2, <1>3

\* The token is the request's own, or that of a row.
LEMMA ResolveStep ==
  ASSUME IInv, NEW r \in Requests, ResolveOwner(r)
  PROVE  IInv'
<1> USE DEF ResolveOwner
<1>1. TypeOK /\ HandlerInv(r) /\ req[r].pc = "resolve"
  BY DEF IInv
<1>2. CASE End(r, "rejected")
  BY <1>1, <1>2, EndStep DEF TypeOK, Steps, Accepted, Committed
<1>3. CASE ~End(r, "rejected")
  <2>1. PICK token \in Requests :
          req' = [req EXCEPT ![r].pc = "version", ![r].owner_token = token]
    BY <1>1, <1>3 DEF TypeOK, Family, Row
  <2> DEFINE h == [req[r] EXCEPT !.pc = "version", !.owner_token = token]
  <2>2. req[r] \in Handler /\ req \in [Requests -> Handler]
    BY <1>1 DEF TypeOK, Handler
  <2>3. /\ h \in Handler /\ h.pc = "version" /\ h.browser = req[r].browser
        /\ h.bot_name = req[r].bot_name /\ h.owned = req[r].owned
        /\ h.owner_token = token
    BY <2>2 DEF Handler, Steps, Tokens
  <2>4. req' = [req EXCEPT ![r] = h]
    BY <2>1, <2>2
  <2> HIDE DEF h
  <2>5. req' \in [Requests -> Handler] /\ req'[r] = h
    BY <2>2, <2>3, <2>4
  <2>6. TypeOK'
    BY <1>1, <2>5 DEF TypeOK, Handler
  <2>7. HandlerInv(r)'
    BY <1>1, <2>3, <2>5 DEF HandlerInv, Accepted, Owner, Committed, Backed, Family
  <2>8. \A q \in Requests : q # r => req'[q] = req[q]
    BY <2>2, <2>4
  <2> QED
    BY <1>1, <2>6, <2>7, <2>8, QuietStep, JarKept
<1> QED
  BY <1>2, <1>3

\* At this moment the version is the family's next.
LEMMA VersionStep ==
  ASSUME IInv, NEW r \in Requests, ReadNextVersion(r)
  PROVE  IInv'
<1> USE DEF ReadNextVersion
<1>1. TypeOK /\ HandlerInv(r) /\ req[r].pc = "version"
  BY DEF IInv
<1>2. PICK n \in Names : n = req[r].bot_name
  BY <1>1 DEF HandlerInv, Accepted
<1>3. PICK v : v = next_version(n)
  OBVIOUS
<1>4. v \in 1 .. (Cardinality(Family(n)) + 1) /\ v \in Nat
  BY <1>3, NextVersion, FamilyFinite DEF IInv, RowsInv
<1>5. PICK h : h = [req[r] EXCEPT !.pc = "insert", !.version = v]
  OBVIOUS
<1>6. req[r] \in Handler /\ req \in [Requests -> Handler] /\ req' = [req EXCEPT ![r] = h]
  BY <1>1, <1>2, <1>3, <1>5 DEF TypeOK, Handler
<1>7. /\ h \in Handler /\ h.pc = "insert" /\ h.browser = req[r].browser
      /\ h.bot_name = n /\ h.owned = req[r].owned
      /\ h.owner_token = req[r].owner_token /\ h.version = v
  BY <1>2, <1>4, <1>5, <1>6 DEF Handler, Steps
<1>8. req' \in [Requests -> Handler] /\ req'[r] = h
  BY <1>6, <1>7
<1>9. TypeOK'
  BY <1>1, <1>8 DEF TypeOK, Handler
<1>10. HandlerInv(r)'
  <2>1. Family(n)' = Family(n) /\ (Backed(req[r].owned) => Backed(req[r].owned)')
    BY <1>7, <1>8 DEF Family, Backed
  <2>2. h.version \in 1 .. (Cardinality(Family(h.bot_name)') + 1)
    BY <1>4, <1>7, <2>1
  <2> QED
    BY <1>1, <1>2, <1>7, <1>8, <2>1, <2>2
    DEF HandlerInv, Accepted, Owner, Committed
<1>11. \A q \in Requests : q # r => req'[q] = req[q]
  BY <1>6
<1> QED
  BY <1>1, <1>9, <1>10, <1>11, QuietStep, JarKept

\* A version that the index lets through is the one after the last.
LEMMA CreateStep ==
  ASSUME IInv, NEW r \in Requests, CreateBot(r)
  PROVE  IInv'
<1> USE DEF CreateBot
<1>1. TypeOK /\ HandlerInv(r) /\ RowsInv /\ req[r].pc = "insert"
  BY DEF IInv
<1>2. PICK n \in Names : n = req[r].bot_name /\ n.suffixes = <<>>
  BY <1>1 DEF HandlerInv, Accepted
<1>3. PICK v \in Nat : v = req[r].version /\ v \in 1 .. (Cardinality(Family(n)) + 1)
  BY <1>1, <1>2 DEF HandlerInv, TypeOK
<1>4. \A row \in rows : /\ row.base_name \in Names /\ row.version \in Nat
                        /\ row.base_name.suffixes = <<>>
  BY <1>1 DEF TypeOK, Row, RowsInv
<1>5. CASE NameTaken(r)
  <2>1. Goto(r, "conflict") /\ rows' = rows
    BY <1>5
  <2>2. PICK row \in rows : versioned_name(row.base_name, row.version)
                              = versioned_name(n, v)
    BY <1>2, <1>3, <1>5 DEF NameTaken
  <2>3. row.base_name = n /\ row.version = v
    BY <1>2, <1>4, <2>2, VersionedNamesDiffer
  <2>4. /\ req' \in [Requests -> Handler]
        /\ \A q \in Requests : q # r => req'[q] = req[q]
        /\ req'[r].pc = "conflict"
        /\ req'[r].browser = req[r].browser /\ req'[r].bot_name = n
        /\ req'[r].owned = req[r].owned /\ req'[r].owner_token = req[r].owner_token
        /\ req'[r].version = v
    BY <1>1, <1>2, <1>3, <2>1, GotoFacts DEF Steps
  <2>5. TypeOK'
    BY <1>1, <2>1, <2>4 DEF TypeOK, Handler
  <2>6. Backed(req[r].owned) => Backed(req[r].owned)'
    BY <2>1, <2>4 DEF Backed, Family
  <2>7. HandlerInv(r)'
    BY <1>1, <1>2, <2>1, <2>3, <2>4, <2>6 DEF HandlerInv, Accepted, Owner, Committed
  <2> QED
    BY <1>1, <2>1, <2>4, <2>5, <2>7, QuietStep, JarKept
<1>6. CASE ~NameTaken(r)
  <2>1. PICK new : new = NewRow(r)
    OBVIOUS
  <2>2. Goto(r, "enqueue") /\ rows' = rows \cup {new}
    BY <1>6, <2>1
  <2>3. /\ new \in Row /\ new.base_name = n /\ new.version = v /\ new.by = r
        /\ new.owner_token = req[r].owner_token
    BY <1>1, <1>2, <1>3, <2>1 DEF NewRow, Row, HandlerInv, Owner, Accepted
  <2>4. /\ req' \in [Requests -> Handler]
        /\ \A q \in Requests : q # r => req'[q] = req[q]
        /\ req'[r].pc = "enqueue"
        /\ req'[r].browser = req[r].browser /\ req'[r].bot_name = n
        /\ req'[r].owned = req[r].owned /\ req'[r].owner_token = req[r].owner_token
    BY <1>1, <1>2, <2>2, GotoFacts DEF Steps
  <2>5. TypeOK'
    BY <1>1, <2>2, <2>3, <2>4 DEF TypeOK, Handler
  <2>6. RowsInv'
    BY <1>1, <1>2, <2>2, <2>3, FS_AddElement DEF RowsInv
  <2>7. VersionsContiguous'
    <3>1. \A row \in Family(n) : row.version # v
      BY <1>2, <1>3, <1>6 DEF NameTaken, Family
    <3>2. /\ IsFiniteSet(Family(n)) /\ Cardinality(Family(n)) \in Nat
          /\ {row.version : row \in Family(n)} = 1 .. Cardinality(Family(n))
      BY <1>1, FamilyFinite DEF IInv, VersionsContiguous, RowsInv
    <3>3. v = Cardinality(Family(n)) + 1
      BY <1>3, <3>1, <3>2
    <3>4. Family(n)' = Family(n) \cup {new} /\ new \notin Family(n)
      BY <2>2, <2>3, <3>1 DEF Family
    <3>5. Cardinality(Family(n)') = Cardinality(Family(n)) + 1
      BY <3>2, <3>4, FS_AddElement
    <3>6. {row.version : row \in Family(n)'} = {row.version : row \in Family(n)} \cup {v}
      BY <2>3, <3>4
    <3>7. {row.version : row \in Family(n)'} = 1 .. Cardinality(Family(n)')
      BY <3>2, <3>3, <3>5, <3>6
    <3>8. \A m \in Names \ {n} : Family(m)' = Family(m)
      BY <2>2, <2>3 DEF Family
    <3> QED
      BY <3>7, <3>8 DEF IInv, VersionsContiguous
  <2>8. CookieBacked' /\ (Backed(req[r].owned) => Backed(req[r].owned)')
    BY <2>2, <2>4 DEF IInv, CookieBacked, Backed, Family
  <2>9. HandlerInv(r)'
    BY <1>1, <1>2, <2>2, <2>3, <2>4, <2>8 DEF HandlerInv, Accepted, Owner, Committed
  <2>10. \A q \in Requests : HandlerInv(q)'
    BY <2>2, <2>4, <2>6, <2>9, OthersKept DEF RowsInv
  <2>11. BuildsHaveRows' /\ SomeoneConnects'
    BY <1>1, <2>2, <2>4 DEF IInv, BuildsHaveRows, SomeoneConnects
  <2> QED
    BY <2>5, <2>6, <2>7, <2>8, <2>10, <2>11 DEF IInv
<1> QED
  BY <1>5, <1>6

\* After the commit: a step from one await to the next.
LEMMA CommittedStep ==
  ASSUME IInv, NEW r \in Requests, req[r].pc \in Committed,
         NEW step \in Committed, Goto(r, step),
         rows' = rows, jar' = jar, faults' = faults,
         client \subseteq client', client' \subseteq Attributes,
         builds' = builds \/ builds' = builds \cup {r},
         step = "channel" => "_connection" \in client',
         step = "declare" => {"_connection", "_channel"} \subseteq client',
         \/ client' = client /\ req[r].pc \notin {"channel", "declare"}
         \/ step \in {"channel", "declare"}
         \/ client' = Attributes
  PROVE  IInv'
<1>1. TypeOK /\ HandlerInv(r) /\ step \in Steps
  BY DEF IInv, Committed, Steps
<1>2. /\ req' \in [Requests -> Handler]
      /\ \A q \in Requests : q # r => req'[q] = req[q]
      /\ req'[r].pc = step
      /\ req'[r].browser = req[r].browser /\ req'[r].bot_name = req[r].bot_name
      /\ req'[r].owned = req[r].owned /\ req'[r].owner_token = req[r].owner_token
  BY <1>1, GotoFacts
<1>3. TypeOK'
  BY <1>1, <1>2 DEF TypeOK, Handler
<1>4. Backed(req[r].owned) => Backed(req[r].owned)'
  BY <1>2 DEF Backed, Family
<1>5. HandlerInv(r)'
  BY <1>1, <1>2, <1>4 DEF HandlerInv, Accepted, Owner, Committed
<1> QED
  BY <1>2, <1>3, <1>5, QuietStep, JarKept

\* enqueue_build_pod, with the awaits of _ensure_connected, and publish_event.
LEMMA BrokerStep ==
  ASSUME IInv, NEW r \in Requests,
         \/ EnqueueBuildPod(r) \/ OpenConnection(r) \/ OpenChannel(r)
         \/ DeclareExchange(r) \/ PublishEvent(r)
  PROVE  IInv'
<1>1. TypeOK /\ HandlerInv(r) /\ client \subseteq Attributes /\ faults \in 0 .. MaxFaults
  BY DEF IInv, TypeOK
<1> USE DEF Committed
<1>2. CASE EnqueueBuildPod(r)
  <2>1. CASE End(r, "failed") /\ builds' = builds
    BY <1>1, <1>2, <2>1, EndStep DEF EnqueueBuildPod, Steps, Accepted
  <2>2. CASE Goto(r, "connect") /\ builds' = builds
    BY <1>1, <1>2, <2>2, CommittedStep DEF EnqueueBuildPod
  <2>3. CASE Goto(r, "event") /\ builds' = builds \cup {r}
    BY <1>1, <1>2, <2>3, CommittedStep DEF EnqueueBuildPod
  <2> QED
    BY <1>2, <2>1, <2>2, <2>3 DEF EnqueueBuildPod
<1>3. CASE OpenConnection(r)
  BY <1>1, <1>3, CommittedStep DEF OpenConnection, Attributes
<1>4. CASE OpenChannel(r)
  BY <1>1, <1>4, CommittedStep DEF OpenChannel, Attributes, HandlerInv
<1>5. CASE DeclareExchange(r)
  <2>1. client' = Attributes
    BY <1>1, <1>5 DEF DeclareExchange, Attributes, HandlerInv
  <2> QED
    BY <1>1, <1>5, <2>1, CommittedStep DEF DeclareExchange
<1>6. CASE PublishEvent(r)
  <2>1. CASE End(r, "failed")
    BY <1>1, <1>6, <2>1, EndStep DEF PublishEvent, Steps, Accepted
  <2>2. CASE Goto(r, "sent")
    BY <1>1, <1>6, <2>2, CommittedStep DEF PublishEvent
  <2> QED
    BY <1>6, <2>1, <2>2 DEF PublishEvent
<1> QED
  BY <1>2, <1>3, <1>4, <1>5, <1>6

\* The cookie that reaches the browser: the one the request carried, which is
\* backed, and the token of the row that was inserted.
LEMMA ReceiveStep ==
  ASSUME IInv, NEW r \in Requests, ReceiveCookie(r)
  PROVE  IInv'
<1> USE DEF ReceiveCookie
<1>1. TypeOK /\ HandlerInv(r) /\ req[r].pc = "sent" /\ req[r].browser \in Browsers
  BY DEF IInv, HandlerInv, Accepted
<1>2. /\ req' \in [Requests -> Handler]
      /\ \A q \in Requests : q # r => req'[q] = req[q]
      /\ req'[r].pc = "done" /\ req'[r].owned = EmptyCookie
  BY <1>1, EndFacts DEF Steps
<1>3. PICK cookie : cookie = [req[r].owned EXCEPT ![req[r].bot_name] = req[r].owner_token]
  OBVIOUS
<1>4. /\ cookie \in [Names -> Tokens]
      /\ jar' = [jar EXCEPT ![req[r].browser] = cookie]
  BY <1>1, <1>3 DEF TypeOK
<1>5. TypeOK'
  BY <1>1, <1>2, <1>4 DEF TypeOK, Handler
<1>6. HandlerInv(r)'
  BY <1>2, EmptyBacked DEF HandlerInv, Accepted, Owner, Committed, Backed
<1>7. ASSUME NEW n \in Names, cookie[n] # NoToken
      PROVE  \E row \in Family(n) : row.owner_token = cookie[n]
  <2>1. CASE n = req[r].bot_name
    <3>1. cookie[n] = req[r].owner_token
      BY <1>1, <1>3, <2>1 DEF TypeOK
    <3> QED
      BY <1>1, <2>1, <3>1 DEF HandlerInv, Committed, Family
  <2>2. CASE n # req[r].bot_name
    <3>1. cookie[n] = req[r].owned[n]
      BY <1>1, <1>3, <2>2 DEF TypeOK
    <3> QED
      BY <1>1, <1>7, <3>1 DEF HandlerInv, Backed
  <2> QED
    BY <2>1, <2>2
<1>8. CookieBacked'
  <2> SUFFICES ASSUME NEW b \in Browsers, NEW n \in Names, jar'[b][n] # NoToken
               PROVE  \E row \in Family(n)' : row.owner_token = jar'[b][n]
    BY DEF CookieBacked
  <2>1. Family(n)' = Family(n)
    BY DEF Family
  <2>2. CASE b = req[r].browser
    BY <1>1, <1>4, <1>7, <2>1, <2>2 DEF TypeOK
  <2>3. CASE b # req[r].browser
    BY <1>1, <1>4, <2>1, <2>3 DEF IInv, CookieBacked, TypeOK
  <2> QED
    BY <2>2, <2>3
<1> QED
  BY <1>1, <1>2, <1>5, <1>6, <1>8, QuietStep

\* A failure ends the handler, wherever it is.
LEMMA FailStep ==
  ASSUME IInv, NEW r \in Requests, RequestFails(r)
  PROVE  IInv'
<1>1. faults' \in 0 .. MaxFaults /\ faults' # 0
  BY FaultsAssumption DEF RequestFails, IInv, TypeOK
<1> QED
  BY <1>1, EndStep DEF RequestFails, Steps, Accepted, Committed
-----------------------------------------------------------------------------
\* The inductive invariant holds however the uploads interleave and fail.
THEOREM Invariance == Spec => []IInv
<1>1. Init => IInv
  <2> SUFFICES ASSUME Init PROVE IInv
    OBVIOUS
  <2> USE DEF Init
  <2>1. \A r \in Requests : req[r] = NewRequest(NoBrowser)
    OBVIOUS
  <2>2. TypeOK
    BY FaultsAssumption, ClientAssumption
    DEF TypeOK, NewRequest, EmptyCookie, Tokens, Steps, Attributes
  <2>3. \A n : Family(n) = {}
    BY DEF Family
  <2>4. VersionsContiguous
    BY <2>3, FS_EmptySet DEF VersionsContiguous
  <2>5. RowsInv
    BY FS_EmptySet DEF RowsInv
  <2>6. \A r \in Requests : HandlerInv(r)
    BY <2>1, EmptyBacked DEF HandlerInv, NewRequest, Accepted, Owner, Committed
  <2> QED
    BY <2>2, <2>4, <2>5, <2>6, ClientAssumption
    DEF IInv, CookieBacked, EmptyCookie, BuildsHaveRows, SomeoneConnects, Attributes
<1>2. IInv /\ [Next]_vars => IInv'
  <2> SUFFICES ASSUME IInv, [Next]_vars PROVE IInv'
    OBVIOUS
  <2>1. CASE UNCHANGED vars
    <3>1. TypeOK' /\ RowsInv' /\ BuildsHaveRows' /\ SomeoneConnects'
      BY <2>1 DEF vars, IInv, TypeOK, RowsInv, BuildsHaveRows, SomeoneConnects
    <3>2. VersionsContiguous'
      BY <2>1 DEF vars, IInv, VersionsContiguous, Family
    <3>3. \A r \in Requests : HandlerInv(r)'
      BY <2>1, OthersKept DEF vars, IInv, RowsInv
    <3> QED
      BY <2>1, <3>1, <3>2, <3>3, JarKept DEF vars, IInv
  <2>2. ASSUME NEW r \in Requests, Handle(r) PROVE IInv'
    BY <2>2, ResolveStep, VersionStep, CreateStep, BrokerStep, ReceiveStep DEF Handle
  <2> QED
    BY <2>1, <2>2, SubmitStep, FailStep DEF Next
<1> QED
  BY <1>1, <1>2, PTL DEF Spec

\* The variables keep their types; in particular next_version, a maximum, is
\* always there.
THEOREM TypeCorrect == Spec => []TypeOK
<1>1. IInv => TypeOK
  BY DEF IInv
<1> QED
  BY <1>1, Invariance, PTL

\* The versions of a family are 1, 2, ..., n however uploads interleave.
THEOREM VersionsCorrect == Spec => []VersionsContiguous
<1>1. IInv => VersionsContiguous
  BY DEF IInv
<1> QED
  BY <1>1, Invariance, PTL

\* The unique index refuses a row only for another row of the same family.
THEOREM ConflictsCorrect == Spec => []ConflictOnlyInFamily
<1>1. IInv => ConflictOnlyInFamily
  BY DEF IInv, HandlerInv, ConflictOnlyInFamily
<1> QED
  BY <1>1, Invariance, PTL

\* A token in a cookie is that of a row of the name, also for cookies that are
\* overtaken by others.
THEOREM CookiesCorrect == Spec => []CookieBacked
<1>1. IInv => CookieBacked
  BY DEF IInv
<1> QED
  BY <1>1, Invariance, PTL

\* Only committed bots are enqueued for building.
THEOREM BuildsCorrect == Spec => []BuildsHaveRows
<1>1. IInv => BuildsHaveRows
  BY DEF IInv
<1> QED
  BY <1>1, Invariance, PTL

\* Without a failure a half connected client is being connected.
THEOREM ConnectsCorrect == Spec => []SomeoneConnects
<1>1. IInv => SomeoneConnects
  BY DEF IInv
<1> QED
  BY <1>1, Invariance, PTL

-----------------------------------------------------------------------------
(* The owners of a name, step by step. *)

\* An upload that is about to insert is an owner of its name.
LEMMA AboutToInsert ==
  ASSUME NEW r \in Requests, req[r].pc \in {"version", "insert"}
  PROVE  req[r].owner_token \in Owners(req[r].bot_name)
BY DEF Owners

\* The owners stay the same set, or a smaller one, when the new row, if any,
\* and the request that moves have a token from it.
LEMMA OwnersKept ==
  ASSUME NEW n \in Names, NEW r \in Requests,
         \A q \in Requests : q # r => req'[q] = req[q],
         \A row \in rows' \ rows : row.base_name = n => row.owner_token \in Owners(n),
         req'[r].pc \in {"version", "insert"} /\ req'[r].bot_name = n
           => req'[r].owner_token \in Owners(n)
  PROVE  Owners(n)' \subseteq Owners(n)
<1> SUFFICES ASSUME NEW t \in Owners(n)' PROVE t \in Owners(n)
  OBVIOUS
<1>1. CASE \E row \in rows' : row.base_name = n /\ row.owner_token = t
  <2>1. PICK row \in rows' : row.base_name = n /\ row.owner_token = t
    BY <1>1
  <2>2. CASE row \in rows
    BY <2>1, <2>2 DEF Owners, Family
  <2> QED
    BY <2>1, <2>2
<1>2. CASE \E q \in Requests : /\ req'[q].pc \in {"version", "insert"}
                               /\ req'[q].bot_name = n /\ req'[q].owner_token = t
  <2>1. PICK q \in Requests : /\ req'[q].pc \in {"version", "insert"}
                              /\ req'[q].bot_name = n /\ req'[q].owner_token = t
    BY <1>2
  <2>2. CASE q # r
    BY <2>1, <2>2, AboutToInsert
  <2> QED
    BY <2>1, <2>2
<1> QED
  BY <1>1, <1>2 DEF Owners, Family

\* _resolve_owner_token hands out a token of a row, if the name has one.
LEMMA ResolveOwners ==
  ASSUME IInv, NEW r \in Requests, ResolveOwner(r), NEW n \in Names, Family(n) # {}
  PROVE  Owners(n)' \subseteq Owners(n)
<1> USE DEF ResolveOwner
<1>1. TypeOK /\ rows' = rows
  BY DEF IInv
<1>2. CASE End(r, "rejected")
  BY <1>1, <1>2, EndFacts, OwnersKept DEF Steps
<1>3. CASE ~End(r, "rejected")
  <2>1. PICK token : /\ req' = [req EXCEPT ![r].pc = "version", ![r].owner_token = token]
                     /\ req[r].bot_name = n => \E row \in Family(n) : row.owner_token = token
    BY <1>3
  <2>2. /\ \A q \in Requests : q # r => req'[q] = req[q]
        /\ req'[r].bot_name = req[r].bot_name /\ req'[r].owner_token = token
    BY <1>1, <2>1 DEF TypeOK
  <2>3. req[r].bot_name = n => token \in Owners(n)
    BY <2>1 DEF Owners
  <2> QED
    BY <1>1, <2>2, <2>3, OwnersKept
<1> QED
  BY <1>2, <1>3

\* next_version leaves the token alone; the row that is inserted has it.
LEMMA InsertOwners ==
  ASSUME IInv, NEW r \in Requests, ReadNextVersion(r) \/ CreateBot(r), NEW n \in Names
  PROVE  Owners(n)' \subseteq Owners(n)
<1>1. TypeOK /\ req[r].pc \in {"version", "insert"}
  BY DEF IInv, ReadNextVersion, CreateBot
<1>2. req[r].owner_token \in Owners(req[r].bot_name)
  BY <1>1, AboutToInsert
<1>3. CASE ReadNextVersion(r)
  <2>1. PICK v : req' = [req EXCEPT ![r].pc = "insert", ![r].version = v]
    BY <1>3 DEF ReadNextVersion
  <2>2. /\ \A q \in Requests : q # r => req'[q] = req[q]
        /\ req'[r].bot_name = req[r].bot_name /\ req'[r].owner_token = req[r].owner_token
    BY <1>1, <2>1 DEF TypeOK
  <2> QED
    BY <1>2, <1>3, <2>2, OwnersKept DEF ReadNextVersion
<1>4. CASE CreateBot(r)
  <2>1. PICK step \in {"conflict", "enqueue"} : Goto(r, step)
    BY <1>4 DEF CreateBot
  <2>2. /\ \A q \in Requests : q # r => req'[q] = req[q]
        /\ req'[r].pc = step
    BY <1>1, <2>1, GotoFacts DEF Steps
  <2>3. \A row \in rows' \ rows : /\ row.base_name = req[r].bot_name
                                  /\ row.owner_token = req[r].owner_token
    BY <1>4 DEF CreateBot, NewRow
  <2> QED
    BY <1>2, <2>2, <2>3, OwnersKept
<1> QED
  BY <1>3, <1>4

\* All other steps leave the rows as they are, and the request elsewhere.
LEMMA OtherOwners ==
  ASSUME IInv, NEW r \in Requests, rows' = rows, NEW n \in Names,
         NEW step \in Steps \ {"version", "insert"}, Goto(r, step) \/ End(r, step)
  PROVE  Owners(n)' \subseteq Owners(n)
<1>1. TypeOK
  BY DEF IInv
<1>2. /\ \A q \in Requests : q # r => req'[q] = req[q]
      /\ req'[r].pc = step
  BY <1>1, GotoFacts, EndFacts
<1> QED
  BY <1>2, OwnersKept

\* From the first row of a name on, nobody else becomes an owner of it.
THEOREM OwnersCorrect == Spec => OwnersFixed
<1>1. ASSUME IInv, [Next]_vars, NEW n \in Names, Family(n) # {}
      PROVE  Owners(n)' \subseteq Owners(n)
  <2>1. CASE UNCHANGED vars
    BY <2>1 DEF vars, Owners, Family
  <2>2. ASSUME NEW r \in Requests, NEW b \in Browsers, NEW m \in Names \cup {NoName},
               NEW known \in BOOLEAN, Submit(r, b, m, known)
        PROVE  Owners(n)' \subseteq Owners(n)
    <3>1. CASE End(r, "rejected")
      BY <1>1, <2>2, <3>1, OtherOwners DEF Submit, Steps
    <3>2. CASE req' = [req EXCEPT ![r].pc = "resolve", ![r].browser = b,
                                  ![r].bot_name = m, ![r].owned = jar[b]]
      <4>1. /\ \A q \in Requests : q # r => req'[q] = req[q]
            /\ req'[r].pc = "resolve"
        BY <1>1, <3>2 DEF IInv, TypeOK
      <4> QED
        BY <2>2, <4>1, OwnersKept DEF Submit
    <3> QED
      BY <2>2, <3>1, <3>2 DEF Submit
  <2>3. ASSUME NEW r \in Requests,
               \/ EnqueueBuildPod(r) \/ OpenConnection(r) \/ OpenChannel(r)
               \/ DeclareExchange(r) \/ PublishEvent(r) \/ ReceiveCookie(r)
               \/ RequestFails(r)
        PROVE  Owners(n)' \subseteq Owners(n)
    <3>1. \E step \in Steps \ {"version", "insert"} : Goto(r, step) \/ End(r, step)
      BY <2>3 DEF EnqueueBuildPod, OpenConnection, OpenChannel, DeclareExchange,
                  PublishEvent, ReceiveCookie, RequestFails, Steps
    <3>2. rows' = rows
      BY <2>3 DEF EnqueueBuildPod, OpenConnection, OpenChannel, DeclareExchange,
                  PublishEvent, ReceiveCookie, RequestFails
    <3> QED
      BY <1>1, <3>1, <3>2, OtherOwners
  <2> QED
    BY <1>1, <2>1, <2>2, <2>3, ResolveOwners, InsertOwners DEF Next, Handle
<1>2. IInv /\ [Next]_vars =>
        (\A n \in Names : Family(n) # {} => Owners(n)' \subseteq Owners(n))
  BY <1>1
<1> QED
  BY <1>2, Invariance, PTL DEF Spec, OwnersFixed
-----------------------------------------------------------------------------
\* How far a handler has come.
Place(pc) ==
  CASE pc = "new" -> 0
    [] pc = "resolve" -> 1
    [] pc = "version" -> 2
    [] pc = "insert" -> 3
    [] pc = "enqueue" -> 4
    [] pc = "connect" -> 5
    [] pc = "channel" -> 6
    [] pc = "declare" -> 7
    [] pc = "event" -> 8
    [] pc = "sent" -> 9
    [] OTHER -> 10

\* There are ten steps ahead of an upload at most.
LEMMA PlaceBounds == \A pc : Place(pc) \in 0 .. 10
BY DEF Place

Advances(r) ==
  /\ Place(req'[r].pc) > Place(req[r].pc)
  /\ \A q \in Requests \ {r} : req'[q] = req[q]

\* A step to a later place.
LEMMA AdvanceBy ==
  ASSUME TypeOK, NEW r \in Requests, NEW step \in Steps, Goto(r, step) \/ End(r, step),
         Place(step) > Place(req[r].pc)
  PROVE  Advances(r)
<1>1. /\ \A q \in Requests : q # r => req'[q] = req[q]
      /\ req'[r].pc = step
  BY GotoFacts, EndFacts
<1> QED
  BY <1>1 DEF Advances

\* Every step takes one upload forward and leaves the others where they are:
\* no retry, no way back, and at most ten steps for an upload, however the
\* others interleave with it and wherever it fails.
THEOREM UploadAdvances == Spec => [][\E r \in Requests : Advances(r)]_vars
<1>1. ASSUME TypeOK, Next PROVE \E r \in Requests : Advances(r)
  <2>1. PICK r \in Requests :
          \/ \E b \in Browsers, n \in Names \cup {NoName}, known \in BOOLEAN :
               Submit(r, b, n, known)
          \/ Handle(r) \/ RequestFails(r)
    BY <1>1 DEF Next
  <2>2. req \in [Requests -> Handler]
    BY <1>1 DEF TypeOK, Handler
  <2>3. ASSUME NEW h, req' = [req EXCEPT ![r] = h], Place(h.pc) > Place(req[r].pc)
        PROVE  Advances(r)
    BY <2>2, <2>3 DEF Advances
  <2>4. CASE \E b \in Browsers, n \in Names \cup {NoName}, known \in BOOLEAN :
               Submit(r, b, n, known)
    <3>1. PICK b \in Browsers, n \in Names \cup {NoName} : \E known \in BOOLEAN :
            Submit(r, b, n, known)
      BY <2>4
    <3>2. CASE End(r, "rejected")
      BY <1>1, <3>1, <3>2, AdvanceBy DEF Submit, Place, Steps
    <3>3. CASE req' = [req EXCEPT ![r].pc = "resolve", ![r].browser = b,
                                  ![r].bot_name = n, ![r].owned = jar[b]]
      <4>1. req'[r].pc = "resolve" /\ \A q \in Requests \ {r} : req'[q] = req[q]
        BY <2>2, <3>3 DEF Handler
      <4> QED
        BY <3>1, <4>1 DEF Submit, Advances, Place
    <3> QED
      BY <3>1, <3>2, <3>3 DEF Submit
  <2>5. CASE ResolveOwner(r)
    <3>1. CASE End(r, "rejected")
      BY <1>1, <2>5, <3>1, AdvanceBy DEF ResolveOwner, Place, Steps
    <3>2. CASE ~End(r, "rejected")
      <4>1. PICK token :
              req' = [req EXCEPT ![r].pc = "version", ![r].owner_token = token]
        BY <2>5, <3>2 DEF ResolveOwner
      <4>2. req'[r].pc = "version" /\ \A q \in Requests \ {r} : req'[q] = req[q]
        BY <2>2, <4>1 DEF Handler
      <4> QED
        BY <2>5, <4>2 DEF ResolveOwner, Advances, Place
    <3> QED
      BY <3>1, <3>2
  <2>6. CASE ReadNextVersion(r)
    <3>1. PICK v : req' = [req EXCEPT ![r].pc = "insert", ![r].version = v]
      BY <2>6 DEF ReadNextVersion
    <3>2. req'[r].pc = "insert" /\ \A q \in Requests \ {r} : req'[q] = req[q]
      BY <2>2, <3>1 DEF Handler
    <3>3. req[r].pc = "version"
      BY <2>6 DEF ReadNextVersion
    <3> QED
      BY <3>2, <3>3 DEF Advances, Place
  <2>7. CASE CreateBot(r) \/ EnqueueBuildPod(r) \/ OpenConnection(r)
    <3>1. PICK step \in Steps : /\ Goto(r, step) \/ End(r, step)
                                /\ Place(step) > Place(req[r].pc)
      BY <2>7 DEF CreateBot, EnqueueBuildPod, OpenConnection, Place, Steps
    <3> QED
      BY <1>1, <3>1, AdvanceBy
  <2>8. CASE OpenChannel(r) \/ DeclareExchange(r) \/ PublishEvent(r) \/ ReceiveCookie(r)
    <3>1. PICK step \in Steps : /\ Goto(r, step) \/ End(r, step)
                                /\ Place(step) > Place(req[r].pc)
      BY <2>8 DEF OpenChannel, DeclareExchange, PublishEvent, ReceiveCookie, Place, Steps
    <3> QED
      BY <1>1, <3>1, AdvanceBy
  <2>9. CASE RequestFails(r)
    BY <1>1, <2>9, AdvanceBy DEF RequestFails, Place, Steps
  <2> QED
    BY <2>1, <2>4, <2>5, <2>6, <2>7, <2>8, <2>9 DEF Handle
<1>2. TypeOK /\ [Next]_vars => [\E r \in Requests : Advances(r)]_vars
  BY <1>1
<1> QED
  BY <1>2, TypeCorrect, PTL DEF Spec
=============================================================================
