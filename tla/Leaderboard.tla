----------------------------- MODULE Leaderboard ----------------------------
(***************************************************************************)
(* The standings: what the repositories (entities/bot/repository.py,       *)
(* entities/match/repository.py) compute from the tables bots and matches, *)
(* and the page of a bot's family (web/main.py), which reads the two       *)
(* tables one after the other while matches go on being recorded.          *)
(*                                                                         *)
(* A row's id is its place in its table.  Ids grow with the time of        *)
(* insertion, so they also stand for submitted_at and played_at.  Versioned*)
(* names are unique, so the id of a bot stands for its versioned_name.     *)
(***************************************************************************)
EXTENDS Integers, SequencesExt

CONSTANTS
  Names,        \* base names
  MaxBots,      \* rows of the bots table
  MaxMatches    \* rows of the matches table

ASSUME BoundsAssumption == MaxBots \in Nat /\ MaxMatches \in Nat

VARIABLES
  bots,      \* the table bots
  matches,   \* the table matches
  page       \* GET /bots/{base_name}, between its two queries and afterwards

vars == <<bots, matches, page>>

MatchOutcome == {"x_wins", "o_wins", "x_forfeit", "o_forfeit", "cat"}

\* The winner_id of a match nobody won (NULL); ids start at 1.
NoWinner == 0

BotIds == DOMAIN bots
MatchIds == DOMAIN matches

base(b) == bots[b].base_name

FamilyOf(name) == {b \in BotIds : base(b) = name}

\* The matches with a property: COUNT(*) ... WHERE.
Count(P(_)) == Cardinality({m \in MatchIds : P(matches[m])})

Involves(m, b) == b \in {m.bot_x, m.bot_o}
-----------------------------------------------------------------------------
(* The tables. *)

\* BotRepository.create, with the version next_version has found.
CreateBot(name) ==
  /\ Len(bots) < MaxBots
  /\ bots' = Append(bots, [base_name |-> name,
                           version |-> Cardinality(FamilyOf(name)) + 1])
  /\ UNCHANGED <<matches, page>>

\* Faulty variant: a forfeit is won by the bot that forfeits.
winner_id_forfeiter(x, o, result) ==
  CASE result \in {"x_wins", "x_forfeit"} -> x
    [] result \in {"o_wins", "o_forfeit"} -> o
    [] OTHER -> NoWinner

winner_id(x, o, result) ==
  CASE result \in {"x_wins", "o_forfeit"} -> x
    [] result \in {"o_wins", "x_forfeit"} -> o
    [] OTHER -> NoWinner

\* MatchRepository.record; the moves, committed with the row, are left out.
RecordMatch(x, o, result) ==
  /\ Len(matches) < MaxMatches
  /\ matches' = Append(matches, [bot_x |-> x, bot_o |-> o, result |-> result,
                                 winner_id |-> winner_id(x, o, result)])
  /\ UNCHANGED <<bots, page>>
-----------------------------------------------------------------------------
(* _per_version_stats, _lifetime_stats and _leaderboard_query. *)

clean_wins(b) ==
  Count(LAMBDA m : m.winner_id = b /\ m.result \in {"x_wins", "o_wins"})

forfeit_wins(b) ==
  Count(LAMBDA m : m.winner_id = b /\ m.result \in {"x_forfeit", "o_forfeit"})

draws(b) == Count(LAMBDA m : Involves(m, b) /\ m.result = "cat")

\* Faulty variant: the winner is not looked at.
losses_all(b) == Count(LAMBDA m : Involves(m, b) /\ m.result # "cat")

losses(b) ==
  Count(LAMBDA m : /\ Involves(m, b)
                   /\ m.result # "cat"
                   /\ m.winner_id = NoWinner \/ m.winner_id # b)

Stats(b) == [clean_wins |-> clean_wins(b), forfeit_wins |-> forfeit_wins(b),
             draws |-> draws(b), losses |-> losses(b)]

\* Faulty variant: only the matches of the latest version count.
lifetime_wins_latest(name) ==
  Count(LAMBDA m : /\ m.winner_id # NoWinner
                   /\ m.winner_id = Max(FamilyOf(name) \cup {0})
                   /\ \/ m.bot_x = m.bot_o
                      \/ base(m.bot_x) # name
                      \/ base(m.bot_o) # name)

\* A bot's match against itself counts, a match between two versions does not.
lifetime_win(m, name) ==
  /\ m.winner_id \in FamilyOf(name)
  /\ m.bot_x = m.bot_o \/ base(m.bot_x) # name \/ base(m.bot_o) # name

lifetime_wins(name) == Count(LAMBDA m : lifetime_win(m, name))

\* Faulty variant: matches within the family count.
lifetime_loss_within(m, name) ==
  /\ m.result # "cat"
  /\ base(m.bot_x) = name \/ base(m.bot_o) = name
  /\ m.winner_id # m.bot_x \/ base(m.bot_o) = name

lifetime_loss(m, name) ==
  /\ m.result # "cat"
  /\ base(m.bot_x) = name \/ base(m.bot_o) = name
  /\ base(m.bot_x) # name \/ base(m.bot_o) # name
  /\ m.winner_id = NoWinner \/ m.winner_id \notin FamilyOf(name)

lifetime_losses(name) == Count(LAMBDA m : lifetime_loss(m, name))

\* Faulty variant: the highest version of all families.
latest_bot_overall ==
  {b \in BotIds : \A c \in BotIds : bots[c].version <= bots[b].version}

\* The CTE latest_bot: the rows with their family's highest version.
latest_bot ==
  {b \in BotIds : \A c \in FamilyOf(base(b)) : bots[c].version <= bots[b].version}

wins(b) == clean_wins(b) + forfeit_wins(b)

\* ORDER BY wins DESC, submitted_at ASC.
RanksBefore(a, b) == wins(a) > wins(b) \/ (wins(a) = wins(b) /\ a < b)

place(b) == Cardinality({c \in latest_bot : RanksBefore(c, b)}) + 1

leaderboard ==
  [i \in 1 .. Cardinality(latest_bot) |-> CHOOSE b \in latest_bot : place(b) = i]
-----------------------------------------------------------------------------
(* The pages. *)

list_for_bot(name) ==
  {m \in MatchIds : base(matches[m].bot_x) = name \/ base(matches[m].bot_o) = name}

\* Faulty variant: a match between two versions is put with the one as X.
group_matches_by_version_x(versions, ms) ==
  [v \in versions |->
     {m \in ms : \/ matches[m].bot_x = v
                 \/ matches[m].bot_o = v /\ matches[m].bot_x \notin versions}]

\* Each version with its matches; a match against itself is there once.
group_matches_by_version(versions, ms) ==
  [v \in versions |-> {m \in ms : Involves(matches[m], v)}]

NoPage == [step |-> "none", base_name |-> "", versions |-> <<>>, grouped |-> <<>>]

\* bot_family: bots.family(base_name), a 404 when there is no version ...
ReadFamily(name) ==
  /\ page.step # "family"
  /\ page' = IF FamilyOf(name) = {} THEN NoPage
             ELSE [step |-> "family", base_name |-> name,
                   versions |-> [b \in FamilyOf(name) |-> Stats(b)],
                   grouped |-> <<>>]
  /\ UNCHANGED <<bots, matches>>

\* ... then matches.list_for_bot(base_name), grouped by the versions found.
ReadMatches ==
  /\ page.step = "family"
  /\ page' = [page EXCEPT !.step = "shown",
       !.grouped = group_matches_by_version(DOMAIN page.versions,
                                            list_for_bot(page.base_name))]
  /\ UNCHANGED <<bots, matches>>

Init == bots = <<>> /\ matches = <<>> /\ page = NoPage

Next ==
  \/ \E name \in Names : CreateBot(name) \/ ReadFamily(name)
  \/ \E x, o \in BotIds, result \in MatchOutcome : RecordMatch(x, o, result)
  \/ ReadMatches

Spec == Init /\ [][Next]_vars
-----------------------------------------------------------------------------
\* Every match of a version is in exactly one of its four columns, also a
\* match that it plays against itself.
StatsAddUp ==
  \A b \in BotIds :
    clean_wins(b) + forfeit_wins(b) + draws(b) + losses(b)
      = Count(LAMBDA m : Involves(m, b))

\* What one family wins another loses: over all families there are as many
\* lifetime losses as wins, but for the matches a bot wins against itself,
\* which are lifetime wins and nobody's losses.
LifetimeBalances ==
  LET Over(P(_, _)) == {f \in Names \X MatchIds : P(matches[f[2]], f[1])} IN
  Cardinality(Over(lifetime_win))
    = Cardinality(Over(lifetime_loss))
        + Count(LAMBDA m : m.bot_x = m.bot_o /\ m.result # "cat")

\* A win in the columns is a win of the bot that is left standing: nobody is
\* credited for a match it lost or forfeited.
WinnersEarnedIt ==
  \A b \in BotIds :
    wins(b) = Count(LAMBDA m : \/ m.bot_x = b /\ m.result \in {"x_wins", "o_forfeit"}
                               \/ m.bot_o = b /\ m.result \in {"o_wins", "x_forfeit"})

\* Each family has one line on the leaderboard, that of its latest version.
OneLinePerFamily ==
  /\ \A name \in Names : FamilyOf(name) # {} =>
       \E i \in DOMAIN leaderboard :
         /\ base(leaderboard[i]) = name
         /\ leaderboard[i] = Max(FamilyOf(name))
  /\ Len(leaderboard) = Cardinality({base(b) : b \in BotIds})

\* A new version starts with empty columns and takes over its family's line,
\* but the lifetime record of every family stays what it was.
UploadKeepsLifetime ==
  [][bots' # bots =>
       \A name \in Names : /\ lifetime_wins(name)' = lifetime_wins(name)
                           /\ lifetime_losses(name)' = lifetime_losses(name)]_vars

\* The page of a family counts a version's matches first and reads them later:
\* it lists at least as many as it counts, and only matches of that version.
FamilyPageListsWhatItCounts ==
  page.step = "shown" =>
    \A v \in DOMAIN page.versions :
      LET s == page.versions[v] IN
      /\ Cardinality(page.grouped[v])
           >= s.clean_wins + s.forfeit_wins + s.draws + s.losses
      /\ \A m \in page.grouped[v] : Involves(matches[m], v)
=============================================================================
