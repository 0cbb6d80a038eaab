-------------------------- MODULE LeaderboardProofs -------------------------
(***************************************************************************)
(* Leaderboard proved for any number of families, versions and matches.    *)
(*                                                                         *)
(* What the queries count are sets of rows, so most of it is a matter of   *)
(* comparing sets: the four columns of a bot split its matches, and each   *)
(* lifetime win between two families is one lifetime loss.  That holds     *)
(* because a match is recorded with bots that are there and with the       *)
(* winner its result says (TableInv), and for the leaderboard because a    *)
(* new version is higher than all before it.                               *)
(***************************************************************************)
EXTENDS Leaderboard, FiniteSetTheorems, SequenceTheorems, TLAPS

BotRows == [base_name : Names, version : Nat]
MatchRows == [bot_x : Nat, bot_o : Nat, result : MatchOutcome, winner_id : Nat]

\* The match was played by these bots and won by the one its result says.
Played(m) ==
  /\ m.bot_x \in BotIds /\ m.bot_o \in BotIds
  /\ m.winner_id = winner_id(m.bot_x, m.bot_o, m.result)

TableInv ==
  /\ bots \in Seq(BotRows) /\ matches \in Seq(MatchRows)
  /\ \A i \in MatchIds : Played(matches[i])
  /\ \A b \in BotIds : bots[b].version <= Cardinality(FamilyOf(base(b)))
  /\ \A b, c \in BotIds : base(b) = base(c) /\ b < c => bots[b].version < bots[c].version

\* The matches of a version, and those its columns count.
Involved(b) == {i \in MatchIds : Involves(matches[i], b)}
Counted(s) == s.clean_wins + s.forfeit_wins + s.draws + s.losses

PageInv ==
  /\ DOMAIN page = {"step", "base_name", "versions", "grouped"}
  /\ page.step \in {"none", "family", "shown"}
  /\ page.step # "none" =>
       \A v \in DOMAIN page.versions :
         /\ v \in FamilyOf(page.base_name) /\ Counted(page.versions[v]) \in Nat
         /\ Counted(page.versions[v]) <= Cardinality(Involved(v))
  /\ page.step = "shown" =>
       \A v \in DOMAIN page.versions :
         /\ page.grouped[v] \subseteq Involved(v)
         /\ Counted(page.versions[v]) <= Cardinality(page.grouped[v])

IInv == TableInv /\ PageInv

\* The ids of the rows.
LEMMA IdFacts ==
  ASSUME TableInv
  PROVE  /\ BotIds = 1 .. Len(bots) /\ Len(bots) \in Nat
         /\ MatchIds = 1 .. Len(matches) /\ Len(matches) \in Nat
         /\ \A b \in BotIds : bots[b] \in BotRows
         /\ \A i \in MatchIds : matches[i] \in MatchRows
BY LenProperties, ElementOfSeq DEF TableInv, BotIds, MatchIds

\* Sets of rows are finite.
LEMMA Finite ==
  ASSUME TableInv
  PROVE  /\ \A S \in SUBSET BotIds : IsFiniteSet(S) /\ Cardinality(S) \in Nat
         /\ \A S \in SUBSET MatchIds : IsFiniteSet(S) /\ Cardinality(S) \in Nat
<1>1. IsFiniteSet(BotIds) /\ IsFiniteSet(MatchIds)
  BY IdFacts, FS_Interval
<1>2. \A S \in SUBSET BotIds : IsFiniteSet(S)
  BY <1>1, FS_Subset
<1>3. \A S \in SUBSET MatchIds : IsFiniteSet(S)
  BY <1>1, FS_Subset
<1> QED
  BY <1>2, <1>3, FS_CardinalityType

\* Rows of two sets that have none in common.
LEMMA Disjoint ==
  ASSUME NEW S, NEW T, IsFiniteSet(S), IsFiniteSet(T), S \cap T = {}
  PROVE  IsFiniteSet(S \cup T) /\ Cardinality(S \cup T) = Cardinality(S) + Cardinality(T)
<1>1. Cardinality(S) \in Nat /\ Cardinality(T) \in Nat
  BY FS_CardinalityType
<1>2. Cardinality(S \cap T) = 0
  BY FS_EmptySet
<1>3. /\ IsFiniteSet(S \cup T)
      /\ Cardinality(S \cup T) = Cardinality(S) + Cardinality(T) - Cardinality(S \cap T)
  BY FS_Union
<1>4. PICK s \in Nat, t \in Nat : s = Cardinality(S) /\ t = Cardinality(T)
  BY <1>1
<1>5. s + t - 0 = s + t
  OBVIOUS
<1> QED
  BY <1>2, <1>3, <1>4, <1>5, Zenon
-----------------------------------------------------------------------------
(* The columns. *)

CleanWon(b) == {i \in MatchIds : /\ matches[i].winner_id = b
                                 /\ matches[i].result \in {"x_wins", "o_wins"}}
ForfeitWon(b) == {i \in MatchIds : /\ matches[i].winner_id = b
                                   /\ matches[i].result \in {"x_forfeit", "o_forfeit"}}
Drawn(b) == {i \in MatchIds : Involves(matches[i], b) /\ matches[i].result = "cat"}
Lost(b) == {i \in MatchIds : /\ Involves(matches[i], b) /\ matches[i].result # "cat"
                             /\ matches[i].winner_id = NoWinner \/ matches[i].winner_id # b}

LEMMA Columns ==
  ASSUME NEW b
  PROVE  /\ clean_wins(b) = Cardinality(CleanWon(b))
         /\ forfeit_wins(b) = Cardinality(ForfeitWon(b))
         /\ draws(b) = Cardinality(Drawn(b)) /\ losses(b) = Cardinality(Lost(b))
BY DEF clean_wins, forfeit_wins, draws, losses, Count, CleanWon, ForfeitWon, Drawn, Lost

\* The winner of a recorded match.
LEMMA WinnerFacts ==
  ASSUME TableInv, NEW i \in MatchIds, NEW m, m = matches[i]
  PROVE  /\ m.result \in MatchOutcome /\ m.bot_x \in BotIds /\ m.bot_o \in BotIds
         /\ m.winner_id = NoWinner <=> m.result = "cat"
         /\ m.winner_id # NoWinner => m.winner_id \in BotIds /\ Involves(m, m.winner_id)
         /\ \A b \in BotIds : m.winner_id = b <=>
              \/ m.bot_x = b /\ m.result \in {"x_wins", "o_forfeit"}
              \/ m.bot_o = b /\ m.result \in {"o_wins", "x_forfeit"}
<1>1. /\ m.result \in MatchOutcome /\ m.bot_x \in BotIds /\ m.bot_o \in BotIds
      /\ m.winner_id = winner_id(m.bot_x, m.bot_o, m.result)
  BY IdFacts DEF TableInv, Played, MatchRows
<1>2. \A b \in BotIds : b # NoWinner
  BY IdFacts DEF NoWinner
<1>3. CASE m.result \in {"x_wins", "o_forfeit"}
  <2>1. m.winner_id = m.bot_x
    BY <1>1, <1>3 DEF winner_id
  <2> QED
    BY <1>1, <1>2, <1>3, <2>1 DEF Involves
<1>4. CASE m.result \in {"o_wins", "x_forfeit"}
  <2>1. m.winner_id = m.bot_o
    BY <1>1, <1>4 DEF winner_id
  <2> QED
    BY <1>1, <1>2, <1>4, <2>1 DEF Involves
<1>5. CASE m.result = "cat"
  <2>1. m.winner_id = NoWinner
    BY <1>1, <1>5 DEF winner_id
  <2> QED
    BY <1>1, <1>2, <1>5, <2>1
<1> QED
  BY <1>1, <1>3, <1>4, <1>5 DEF MatchOutcome

\* The columns split the matches of a bot.
LEMMA ColumnsSplit ==
  ASSUME TableInv, NEW b \in BotIds
  PROVE  /\ Counted(Stats(b)) = Cardinality(Involved(b))
         /\ clean_wins(b) + forfeit_wins(b) + draws(b) + losses(b) = Cardinality(Involved(b))
         /\ wins(b) = Cardinality(CleanWon(b) \cup ForfeitWon(b))
<1> DEFINE A == CleanWon(b)
           B == ForfeitWon(b)
           C == Drawn(b)
           D == Lost(b)
<1>1. /\ IsFiniteSet(A) /\ IsFiniteSet(B) /\ IsFiniteSet(C) /\ IsFiniteSet(D)
      /\ Cardinality(A) \in Nat /\ Cardinality(B) \in Nat
      /\ Cardinality(C) \in Nat /\ Cardinality(D) \in Nat
  BY Finite DEF CleanWon, ForfeitWon, Drawn, Lost
<1>2. ASSUME NEW i \in MatchIds
      PROVE  /\ i \in A => i \notin B /\ i \notin C /\ i \notin D /\ Involves(matches[i], b)
             /\ i \in B => i \notin C /\ i \notin D /\ Involves(matches[i], b)
             /\ i \in C => i \notin D
             /\ Involves(matches[i], b) => i \in A \/ i \in B \/ i \in C \/ i \in D
  <2> DEFINE m == matches[i]
  <2>1. /\ m.result \in MatchOutcome /\ b # NoWinner
        /\ m.winner_id = NoWinner <=> m.result = "cat"
        /\ m.winner_id # NoWinner => Involves(m, m.winner_id)
    BY WinnerFacts, IdFacts DEF NoWinner
  <2> QED
    BY <2>1 DEF CleanWon, ForfeitWon, Drawn, Lost, MatchOutcome
<1>3. A \cap B = {} /\ (A \cup B) \cap C = {} /\ (A \cup B \cup C) \cap D = {}
  BY <1>2 DEF CleanWon, ForfeitWon, Drawn, Lost
<1>4. A \cup B \cup C \cup D = Involved(b)
  BY <1>2 DEF CleanWon, ForfeitWon, Drawn, Lost, Involved
<1> HIDE DEF A, B, C, D
<1>5. IsFiniteSet(A \cup B) /\ Cardinality(A \cup B) = Cardinality(A) + Cardinality(B)
  BY <1>1, <1>3, Disjoint
<1>6. /\ IsFiniteSet(A \cup B \cup C)
      /\ Cardinality(A \cup B \cup C) = Cardinality(A) + Cardinality(B) + Cardinality(C)
  BY <1>1, <1>3, <1>5, Disjoint
<1>7. Cardinality(A \cup B \cup C \cup D)
        = Cardinality(A) + Cardinality(B) + Cardinality(C) + Cardinality(D)
  BY <1>1, <1>3, <1>6, Disjoint
<1>8. /\ clean_wins(b) = Cardinality(A) /\ forfeit_wins(b) = Cardinality(B)
      /\ draws(b) = Cardinality(C) /\ losses(b) = Cardinality(D)
  BY Columns DEF A, B, C, D
<1>9. wins(b) = Cardinality(A \cup B)
  BY <1>5, <1>8 DEF wins
<1>10. clean_wins(b) + forfeit_wins(b) + draws(b) + losses(b) = Cardinality(Involved(b))
  BY <1>4, <1>7, <1>8
<1>11. Counted(Stats(b)) = clean_wins(b) + forfeit_wins(b) + draws(b) + losses(b)
  BY DEF Counted, Stats
<1> QED
  BY <1>9, <1>10, <1>11 DEF A, B
-----------------------------------------------------------------------------
(* The steps. *)

\* A new version is the next of its family, and higher than all before it.
LEMMA CreateBotStep ==
  ASSUME TableInv, NEW name \in Names, CreateBot(name)
  PROVE  TableInv'
<1>1. \A S \in SUBSET BotIds : Cardinality(S) \in Nat /\ IsFiniteSet(S)
  BY Finite
<1>2. FamilyOf(name) \in SUBSET BotIds
  BY DEF FamilyOf
<1>3. PICK n \in Nat, k \in Nat : n = Len(bots) + 1 /\ k = Cardinality(FamilyOf(name))
  BY <1>1, <1>2, IdFacts
<1>4. PICK row \in BotRows :
        /\ row.base_name = name /\ row.version = k + 1
        /\ bots' = Append(bots, row) /\ UNCHANGED <<matches, page>>
  BY <1>3 DEF BotRows, CreateBot
<1>5. /\ bots' \in Seq(BotRows) /\ BotIds' = BotIds \cup {n} /\ n \notin BotIds
      /\ bots'[n] = row /\ \A b \in BotIds : bots'[b] = bots[b] /\ b < n /\ b \in Nat
  <2>1. bots \in Seq(BotRows) /\ BotIds = 1 .. Len(bots) /\ Len(bots) \in Nat
    BY IdFacts DEF TableInv
  <2>2. bots' \in Seq(BotRows) /\ Len(bots') = n /\ bots'[n] = row
    BY <1>3, <1>4, <2>1
  <2>3. BotIds' = 1 .. n
    BY <1>3, <2>1, <2>2 DEF BotIds
  <2> QED
    BY <1>3, <1>4, <2>1, <2>2, <2>3
<1>6. base(n)' = name /\ \A b \in BotIds : base(b)' = base(b)
  BY <1>4, <1>5 DEF base
<1>7. \A f \in Names : FamilyOf(f)' = IF f = name THEN FamilyOf(f) \cup {n} ELSE FamilyOf(f)
  BY <1>5, <1>6 DEF FamilyOf
<1>8. \A b \in BotIds : base(b) \in Names
  BY IdFacts DEF base, BotRows
<1>9. Cardinality(FamilyOf(name) \cup {n}) = k + 1
  <2>1. n \notin FamilyOf(name)
    BY <1>2, <1>5
  <2> QED
    BY <1>1, <1>2, <1>3, <2>1, FS_AddElement
<1>10. \A b \in BotIds' : bots'[b].version <= Cardinality(FamilyOf(base(b))')
  <2> SUFFICES ASSUME NEW b \in BotIds'
      PROVE  bots'[b].version <= Cardinality(FamilyOf(base(b))')
    OBVIOUS
  <2>1. CASE b = n
    <3>1. FamilyOf(base(b))' = FamilyOf(name) \cup {n}
      BY <1>5, <1>6, <2>1 DEF FamilyOf
    <3>2. bots'[b].version = k + 1
      BY <1>4, <1>5, <2>1
    <3> QED
      BY <1>9, <3>1, <3>2
  <2>2. CASE b \in BotIds
    <3>1. PICK f \in Names : f = base(b)
      BY <1>8, <2>2
    <3>2. FamilyOf(base(b))' = FamilyOf(f)'
      BY <1>6, <2>2, <3>1 DEF FamilyOf
    <3>3. bots[b].version <= Cardinality(FamilyOf(f)) /\ bots'[b].version = bots[b].version
      BY <1>5, <2>2, <3>1 DEF TableInv
    <3>4. Cardinality(FamilyOf(f)) \in Nat /\ bots[b].version \in Nat
      BY <1>1, <2>2, IdFacts DEF FamilyOf, BotRows
    <3>5. CASE f = name
      <4>1. FamilyOf(base(b))' = FamilyOf(name) \cup {n}
        BY <1>7, <3>2, <3>5, Zenon
      <4>2. bots[b].version <= k
        BY <1>3, <3>3, <3>5
      <4> QED
        BY <1>9, <3>3, <3>4, <4>1, <4>2
    <3>6. CASE f # name
      BY <1>7, <3>2, <3>3, <3>6
    <3> QED
      BY <3>5, <3>6
  <2> QED
    BY <1>5, <2>1, <2>2
<1>11. \A b, c \in BotIds' : base(b)' = base(c)' /\ b < c => bots'[b].version < bots'[c].version
  <2> SUFFICES ASSUME NEW b \in BotIds', NEW c \in BotIds', base(b)' = base(c)', b < c
      PROVE  bots'[b].version < bots'[c].version
    OBVIOUS
  <2>1. b \in BotIds
    BY <1>5
  <2>2. CASE c = n
    <3>1. base(b) = name
      BY <1>6, <2>1, <2>2
    <3>2. bots[b].version <= Cardinality(FamilyOf(name)) /\ bots[b].version \in Nat
      BY <2>1, <3>1, IdFacts DEF TableInv, BotRows
    <3>3. bots'[b].version = bots[b].version /\ bots'[c].version = k + 1
      BY <1>4, <1>5, <2>1, <2>2
    <3> QED
      BY <1>3, <3>2, <3>3
  <2>3. CASE c \in BotIds
    BY <1>5, <1>6, <2>1, <2>3 DEF TableInv
  <2> QED
    BY <1>5, <2>2, <2>3
<1>12. matches' \in Seq(MatchRows) /\ \A i \in MatchIds' : Played(matches[i])'
  BY <1>4, <1>5 DEF TableInv, Played, MatchIds
<1> QED
  BY <1>5, <1>10, <1>11, <1>12 DEF TableInv

LEMMA RecordMatchStep ==
  ASSUME TableInv, NEW x \in BotIds, NEW o \in BotIds, NEW result \in MatchOutcome,
         RecordMatch(x, o, result)
  PROVE  /\ TableInv' /\ MatchIds \subseteq MatchIds'
         /\ \A i \in MatchIds : matches'[i] = matches[i]
<1> DEFINE w == winner_id(x, o, result)
           row == [bot_x |-> x, bot_o |-> o, result |-> result, winner_id |-> w]
<1>1. matches' = Append(matches, row) /\ UNCHANGED <<bots, page>>
  BY DEF RecordMatch
<1>2. w \in Nat
  BY IdFacts DEF winner_id, NoWinner
<1>3. row \in MatchRows
  <2> HIDE DEF w
  <2> QED
    BY <1>2, IdFacts DEF MatchRows
<1>4. /\ matches' \in Seq(MatchRows) /\ MatchIds' = MatchIds \cup {Len(matches) + 1}
      /\ matches'[Len(matches) + 1] = row /\ \A i \in MatchIds : matches'[i] = matches[i]
  <2>1. matches \in Seq(MatchRows) /\ MatchIds = 1 .. Len(matches) /\ Len(matches) \in Nat
    BY IdFacts DEF TableInv
  <2> HIDE DEF row
  <2>2. matches' \in Seq(MatchRows) /\ Len(matches') = Len(matches) + 1
    BY <1>1, <1>3, <2>1
  <2>3. MatchIds' = 1 .. (Len(matches) + 1)
    BY <2>1, <2>2 DEF MatchIds
  <2> QED
    BY <1>1, <1>3, <2>1, <2>2, <2>3
<1>5. Played(row)
  BY DEF Played
<1>6. BotIds' = BotIds /\ \A b : base(b)' = base(b) /\ FamilyOf(b)' = FamilyOf(b)
  BY <1>1 DEF BotIds, base, FamilyOf
<1>7. \A i \in MatchIds' : Played(matches[i])'
  <2> SUFFICES ASSUME NEW i \in MatchIds' PROVE Played(matches[i])'
    OBVIOUS
  <2>1. Played(matches'[i])
    BY <1>4, <1>5 DEF TableInv
  <2> QED
    BY <1>6, <2>1 DEF Played
<1> QED
  BY <1>1, <1>4, <1>6, <1>7 DEF TableInv

\* Rows once recorded stay: the matches of a version only become more, and so
\* do the versions of a family.
LEMMA PageKept ==
  ASSUME TableInv, TableInv', PageInv, UNCHANGED page,
         BotIds \subseteq BotIds', \A b \in BotIds : bots'[b] = bots[b],
         MatchIds \subseteq MatchIds', \A i \in MatchIds : matches'[i] = matches[i]
  PROVE  PageInv'
<1>1. \A v : Involved(v) \subseteq Involved(v)' /\ Involved(v)' \subseteq MatchIds'
  BY DEF Involved, Involves
<1>2. \A f : FamilyOf(f) \subseteq FamilyOf(f)'
  BY DEF FamilyOf, base
<1>3. \A v : /\ Cardinality(Involved(v)) <= Cardinality(Involved(v)')
             /\ Cardinality(Involved(v)) \in Nat /\ Cardinality(Involved(v)') \in Nat
  <2> SUFFICES ASSUME NEW v
      PROVE  /\ Cardinality(Involved(v)) <= Cardinality(Involved(v)')
             /\ Cardinality(Involved(v)) \in Nat /\ Cardinality(Involved(v)') \in Nat
    OBVIOUS
  <2>1. IsFiniteSet(MatchIds') /\ Involved(v) \subseteq MatchIds
    BY IdFacts, FS_Interval DEF TableInv, BotIds, MatchIds, Involved
  <2>2. IsFiniteSet(Involved(v)')
    BY <1>1, <2>1, FS_Subset
  <2>3. Cardinality(Involved(v)) <= Cardinality(Involved(v)')
    BY <1>1, <2>2, FS_Subset
  <2> QED
    BY <1>1, <2>1, <2>2, <2>3, Finite, FS_CardinalityType
<1>4. page.step # "none" =>
        \A v \in DOMAIN page.versions :
          /\ v \in FamilyOf(page.base_name)' /\ Counted(page.versions[v]) \in Nat
          /\ Counted(page.versions[v]) <= Cardinality(Involved(v)')
  <2> SUFFICES ASSUME page.step # "none", NEW v \in DOMAIN page.versions
      PROVE  /\ v \in FamilyOf(page.base_name)' /\ Counted(page.versions[v]) \in Nat
             /\ Counted(page.versions[v]) <= Cardinality(Involved(v)')
    OBVIOUS
  <2>1. /\ v \in FamilyOf(page.base_name) /\ Counted(page.versions[v]) \in Nat
        /\ Counted(page.versions[v]) <= Cardinality(Involved(v))
    BY DEF PageInv
  <2>2. PICK a \in Nat, b \in Nat, c \in Nat :
          /\ a = Counted(page.versions[v]) /\ b = Cardinality(Involved(v))
          /\ c = Cardinality(Involved(v)')
    BY <1>3, <2>1
  <2>3. a <= c
    BY <1>3, <2>1, <2>2
  <2> QED
    BY <1>2, <2>1, <2>2, <2>3
<1> QED
  BY <1>1, <1>4 DEF PageInv, FamilyOf, Counted, Involved

\* The first query: the page counts what there is.
LEMMA ReadFamilyStep ==
  ASSUME IInv, NEW name \in Names, ReadFamily(name)
  PROVE  PageInv'
<1>1. UNCHANGED <<bots, matches>>
  BY DEF ReadFamily
<1>2. CASE FamilyOf(name) = {}
  <2>1. page' = NoPage
    BY <1>2 DEF ReadFamily
  <2> QED
    BY <2>1 DEF NoPage, PageInv
<1>3. CASE FamilyOf(name) # {}
  <2> DEFINE versions == [b \in FamilyOf(name) |-> Stats(b)]
  <2>1. page' = [step |-> "family", base_name |-> name, versions |-> versions, grouped |-> <<>>]
    BY <1>3 DEF ReadFamily
  <2>2. \A v \in FamilyOf(name) :
          Counted(Stats(v)) = Cardinality(Involved(v)) /\ Cardinality(Involved(v)) \in Nat
    BY ColumnsSplit, Finite DEF IInv, FamilyOf, Involved
  <2>3. /\ DOMAIN page' = {"step", "base_name", "versions", "grouped"}
        /\ page'.step = "family" /\ page'.base_name = name
        /\ DOMAIN page'.versions = FamilyOf(name)
        /\ \A v \in FamilyOf(name) : page'.versions[v] = Stats(v)
    BY <2>1
  <2>4. \A v \in DOMAIN page'.versions :
          /\ v \in FamilyOf(name) /\ Counted(page'.versions[v]) \in Nat
          /\ Counted(page'.versions[v]) <= Cardinality(Involved(v))
    <3> SUFFICES ASSUME NEW v \in FamilyOf(name)
        PROVE  /\ Counted(page'.versions[v]) \in Nat
               /\ Counted(page'.versions[v]) <= Cardinality(Involved(v))
      BY <2>3
    <3>1. Counted(page'.versions[v]) = Counted(Stats(v))
      BY <2>3
    <3> QED
      BY <2>2, <3>1
  <2>5. FamilyOf(name)' = FamilyOf(name) /\ \A v : Involved(v)' = Involved(v)
    BY <1>1 DEF FamilyOf, base, BotIds, Involved, MatchIds
  <2> QED
    BY <2>3, <2>4, <2>5 DEF PageInv, Counted, FamilyOf
<1> QED
  BY <1>2, <1>3

\* The second: the matches of the family that involve a version are all the
\* matches of that version.
LEMMA ReadMatchesStep ==
  ASSUME IInv, ReadMatches
  PROVE  PageInv'
<1> DEFINE name == page.base_name
           grouped == group_matches_by_version(DOMAIN page.versions, list_for_bot(name))
<1>1. UNCHANGED <<bots, matches>> /\ page.step = "family"
  BY DEF ReadMatches
<1>2. page' = [page EXCEPT !.step = "shown", !.grouped = grouped]
  BY DEF ReadMatches
<1>3. \A v \in DOMAIN page.versions :
        /\ v \in FamilyOf(name) /\ Counted(page.versions[v]) \in Nat
        /\ Counted(page.versions[v]) <= Cardinality(Involved(v))
  BY <1>1 DEF IInv, PageInv
<1>4. \A v \in DOMAIN page.versions : grouped[v] = Involved(v)
  BY <1>3 DEF group_matches_by_version, list_for_bot, Involved, Involves, FamilyOf
<1> HIDE DEF grouped
<1>5. /\ DOMAIN page' = DOMAIN page /\ page'.step = "shown" /\ page'.base_name = name
      /\ page'.versions = page.versions /\ page'.grouped = grouped
  BY <1>2 DEF IInv, PageInv
<1>6. FamilyOf(name)' = FamilyOf(name) /\ \A v : Involved(v)' = Involved(v)
  BY <1>1, <1>5 DEF FamilyOf, base, BotIds, Involved, MatchIds
<1> QED
  BY <1>3, <1>4, <1>5, <1>6 DEF IInv, PageInv, Counted, FamilyOf
-----------------------------------------------------------------------------
(* The leaderboard. *)

\* A family that is there has one latest version, the one uploaded last.
LEMMA LatestFacts ==
  ASSUME TableInv
  PROVE  /\ latest_bot \in SUBSET BotIds
         /\ \A b \in latest_bot : \A c \in FamilyOf(base(b)) : c <= b
         /\ \A b \in BotIds : (\A c \in FamilyOf(base(b)) : c <= b) => b \in latest_bot
<1>1. \A b \in BotIds : b \in Nat /\ bots[b].version \in Nat
  BY IdFacts DEF BotRows
<1>2. ASSUME NEW b \in latest_bot, NEW c \in FamilyOf(base(b)) PROVE c <= b
  <2>1. b \in BotIds /\ c \in BotIds /\ base(c) = base(b) /\ bots[c].version <= bots[b].version
    BY <1>2 DEF latest_bot, FamilyOf
  <2>2. b < c => bots[b].version < bots[c].version
    BY <2>1 DEF TableInv
  <2> QED
    BY <1>1, <2>1, <2>2
<1>3. ASSUME NEW b \in BotIds, \A c \in FamilyOf(base(b)) : c <= b PROVE b \in latest_bot
  <2> SUFFICES ASSUME NEW c \in FamilyOf(base(b)) PROVE bots[c].version <= bots[b].version
    BY DEF latest_bot
  <2>1. c \in BotIds /\ base(c) = base(b) /\ c <= b
    BY <1>3 DEF FamilyOf
  <2>2. c < b => bots[c].version < bots[b].version
    BY <2>1 DEF TableInv
  <2> QED
    BY <1>1, <2>1, <2>2
<1> QED
  BY <1>2, <1>3 DEF latest_bot

\* A set of ids that is not empty has a greatest.
LEMMA Greatest ==
  ASSUME TableInv, NEW S \in SUBSET BotIds, S # {}
  PROVE  \E b \in S : \A c \in S : c <= b
<1> DEFINE n == Len(bots)
           T == {d \in Nat : n - d \in S}
           R == OpToRel(<, Nat)
<1>1. n \in Nat /\ BotIds = 1 .. n
  BY IdFacts
<1>2. IsWellFoundedOn(R, Nat)
  BY NatLessThanWellFounded
<1>3. \A x, y \in Nat : <<x, y>> \in R <=> x < y
  BY DEF OpToRel
<1> HIDE DEF n, R
<1>4. T \subseteq Nat /\ \A b \in S : b \in Nat /\ n - b \in T /\ n - b \in Nat
  BY <1>1
<1>5. T # {}
  BY <1>4
<1> HIDE DEF T
<1>6. PICK d \in T : \A e \in T : ~ (<<e, d>> \in R)
  BY <1>2, <1>4, <1>5, WFMin
<1>7. n - d \in S /\ d \in Nat
  BY DEF T
<1>8. ASSUME NEW c \in S PROVE n - c >= d
  <2>1. PICK e \in Nat : e = n - c /\ e \in T
    BY <1>4
  <2>2. ~(e < d)
    BY <1>3, <1>6, <1>7, <2>1
  <2> QED
    BY <1>7, <2>1, <2>2
<1>9. \A c \in S : c <= n - d
  BY <1>1, <1>4, <1>7, <1>8
<1> QED
  BY <1>7, <1>9

LEMMA LatestExists ==
  ASSUME TableInv, NEW name, FamilyOf(name) # {}
  PROVE  \E b \in latest_bot : base(b) = name /\ b = Max(FamilyOf(name))
<1>1. FamilyOf(name) \in SUBSET BotIds
  BY DEF FamilyOf
<1>2. PICK b \in FamilyOf(name) : \A c \in FamilyOf(name) : c <= b
  BY <1>1, Greatest
<1>3. base(b) = name /\ b \in BotIds
  BY DEF FamilyOf
<1>4. b \in latest_bot
  BY <1>2, <1>3, LatestFacts
<1>5. b = Max(FamilyOf(name))
  <2>1. \A c \in FamilyOf(name) : c \in Nat
    BY <1>1, IdFacts
  <2>2. \A c \in FamilyOf(name) : (\A d \in FamilyOf(name) : c >= d) => c = b
    BY <1>2, <2>1
  <2>3. \A d \in FamilyOf(name) : b >= d
    BY <1>2, <2>1
  <2> QED
    BY <2>2, <2>3 DEF Max
<1> QED
  BY <1>3, <1>4, <1>5

\* The order of the lines is total.
LEMMA RankFacts ==
  ASSUME TableInv
  PROVE  \A a, b, c \in BotIds :
           /\ ~RanksBefore(a, a)
           /\ RanksBefore(a, b) \/ RanksBefore(b, a) \/ a = b
           /\ RanksBefore(a, b) /\ RanksBefore(b, c) => RanksBefore(a, c)
<1>1. \A b \in BotIds : wins(b) \in Nat /\ b \in Nat
  <2> SUFFICES ASSUME NEW b \in BotIds PROVE wins(b) \in Nat /\ b \in Nat
    OBVIOUS
  <2>1. CleanWon(b) \cup ForfeitWon(b) \in SUBSET MatchIds
    BY DEF CleanWon, ForfeitWon
  <2>2. Cardinality(CleanWon(b) \cup ForfeitWon(b)) \in Nat
    BY <2>1, Finite
  <2>3. wins(b) = Cardinality(CleanWon(b) \cup ForfeitWon(b))
    BY ColumnsSplit
  <2> QED
    BY <2>2, <2>3, IdFacts
<1> QED
  BY <1>1 DEF RanksBefore

\* Every place from the first to the last is that of one line.
LEMMA PlaceFacts ==
  ASSUME TableInv
  PROVE  /\ \A b \in latest_bot : place(b) \in 1 .. Cardinality(latest_bot)
         /\ \A a, b \in latest_bot : RanksBefore(a, b) => place(a) < place(b)
         /\ \A i \in 1 .. Cardinality(latest_bot) : \E b \in latest_bot : place(b) = i
<1> DEFINE L == latest_bot
           n == Cardinality(L)
           before(b) == {c \in L : RanksBefore(c, b)}
<1>1. L \in SUBSET BotIds /\ IsFiniteSet(L) /\ n \in Nat
  BY LatestFacts, Finite
<1>2. \A b : before(b) \in SUBSET L /\ IsFiniteSet(before(b)) /\ Cardinality(before(b)) \in Nat
  BY <1>1, FS_Subset, FS_CardinalityType
<1>3. \A b : place(b) = Cardinality(before(b)) + 1
  BY DEF place
<1>4. ASSUME NEW b \in L PROVE place(b) \in 1 .. n
  <2>1. before(b) \subseteq L \ {b}
    BY <1>1, RankFacts
  <2>2. IsFiniteSet(L \ {b}) /\ Cardinality(L \ {b}) = n - 1
    BY <1>1, FS_RemoveElement
  <2>3. Cardinality(before(b)) <= n - 1
    BY <2>1, <2>2, FS_Subset
  <2> HIDE DEF n, before
  <2> QED
    BY <1>1, <1>2, <1>3, <2>3
<1>5. ASSUME NEW a \in L, NEW b \in L, RanksBefore(a, b) PROVE place(a) < place(b)
  <2>1. before(a) \cup {a} \subseteq before(b) /\ a \notin before(a)
    BY <1>1, <1>5, RankFacts
  <2>2. Cardinality(before(a) \cup {a}) = Cardinality(before(a)) + 1
    BY <1>2, <2>1, FS_AddElement
  <2>3. Cardinality(before(a) \cup {a}) <= Cardinality(before(b))
    BY <1>2, <2>1, FS_Subset
  <2> HIDE DEF before
  <2> QED
    BY <1>2, <1>3, <2>2, <2>3
<1>6. \A a, b \in L : place(a) = place(b) => a = b
  <2> SUFFICES ASSUME NEW a \in L, NEW b \in L, place(a) = place(b) PROVE a = b
    OBVIOUS
  <2>1. RanksBefore(a, b) \/ RanksBefore(b, a) \/ a = b
    BY <1>1, RankFacts
  <2>2. place(a) \in Nat /\ place(b) \in Nat
    BY <1>4
  <2> QED
    BY <1>5, <2>1, <2>2
<1>7. \A i \in 1 .. n : \E b \in L : place(b) = i
  <2> DEFINE f == [b \in L |-> place(b)]
  <2>1. f \in Injection(L, 1 .. n)
    BY <1>4, <1>6 DEF Injection, IsInjective
  <2>2. IsFiniteSet(1 .. n) /\ Cardinality(1 .. n) = n
    BY <1>1, FS_Interval
  <2> HIDE DEF f
  <2>3. f \in Surjection(L, 1 .. n)
    BY <2>1, <2>2, FS_Injection
  <2> QED
    BY <2>3 DEF Surjection, f
<1> QED
  BY <1>4, <1>5, <1>7

\* The lines are those of the latest versions, in their order.
LEMMA LinesFacts ==
  ASSUME TableInv
  PROVE  /\ leaderboard \in Seq(latest_bot) /\ Len(leaderboard) = Cardinality(latest_bot)
         /\ \A b \in latest_bot : \E i \in DOMAIN leaderboard : leaderboard[i] = b
         /\ \A i, j \in DOMAIN leaderboard :
              i < j => RanksBefore(leaderboard[i], leaderboard[j])
<1> DEFINE n == Cardinality(latest_bot)
<1>1. n \in Nat /\ latest_bot \in SUBSET BotIds
  BY LatestFacts, Finite
<1>2. \A i \in 1 .. n : leaderboard[i] \in latest_bot /\ place(leaderboard[i]) = i
  BY PlaceFacts DEF leaderboard
<1>3. leaderboard \in [1 .. n -> latest_bot]
  BY <1>2 DEF leaderboard
<1>4. leaderboard \in Seq(latest_bot) /\ Len(leaderboard) = n /\ DOMAIN leaderboard = 1 .. n
  BY <1>1, <1>3
<1>5. \A a, b \in latest_bot :
        /\ place(a) \in Nat /\ place(b) \in Nat
        /\ RanksBefore(a, b) \/ RanksBefore(b, a) \/ a = b
        /\ RanksBefore(a, b) => place(a) < place(b)
  BY <1>1, PlaceFacts, RankFacts
<1>6. ASSUME NEW b \in latest_bot PROVE leaderboard[place(b)] = b /\ place(b) \in 1 .. n
  <2>1. place(b) \in 1 .. n
    BY PlaceFacts
  <2>2. leaderboard[place(b)] \in latest_bot /\ place(leaderboard[place(b)]) = place(b)
    BY <1>2, <2>1
  <2> QED
    BY <1>5, <2>1, <2>2
<1>7. ASSUME NEW i \in 1 .. n, NEW j \in 1 .. n, i < j
      PROVE  RanksBefore(leaderboard[i], leaderboard[j])
  BY <1>2, <1>5, <1>7
<1> QED
  BY <1>4, <1>6, <1>7
-----------------------------------------------------------------------------
(* The lifetime record. *)

WinPairs == {f \in Names \X MatchIds : lifetime_win(matches[f[2]], f[1])}
LossPairs == {f \in Names \X MatchIds : lifetime_loss(matches[f[2]], f[1])}

\* The decided matches of two families, and those of a bot against itself.
Between == {i \in MatchIds : /\ matches[i].result # "cat"
                             /\ base(matches[i].bot_x) # base(matches[i].bot_o)}
Alone == {i \in MatchIds : matches[i].bot_x = matches[i].bot_o /\ matches[i].result # "cat"}

\* A match is a lifetime win of one family at most, and a loss of another.
LEMMA LifetimeFacts ==
  ASSUME TableInv, NEW i \in MatchIds
  PROVE  /\ \A n \in Names : lifetime_win(matches[i], n) =>
              n = base(matches[i].winner_id) /\ (i \in Between \/ i \in Alone)
         /\ i \in Between \/ i \in Alone => \E n \in Names : lifetime_win(matches[i], n)
         /\ \A n \in Names : lifetime_loss(matches[i], n) => i \in Between
         /\ \A n, q \in Names : lifetime_loss(matches[i], n) /\ lifetime_loss(matches[i], q) => n = q
         /\ i \in Between => \E n \in Names : lifetime_loss(matches[i], n)
         /\ i \notin Between \/ i \notin Alone
<1> DEFINE m == matches[i]
           w == m.winner_id
<1>1. /\ m.result \in MatchOutcome /\ m.bot_x \in BotIds /\ m.bot_o \in BotIds
      /\ w = NoWinner <=> m.result = "cat"
      /\ w # NoWinner => w \in BotIds /\ (w = m.bot_x \/ w = m.bot_o)
  BY WinnerFacts DEF Involves
<1>2. /\ base(m.bot_x) \in Names /\ base(m.bot_o) \in Names /\ NoWinner \notin BotIds
      /\ \A n : w \in FamilyOf(n) <=> w \in BotIds /\ base(w) = n
  BY <1>1, IdFacts DEF base, BotRows, NoWinner, FamilyOf
<1>3. /\ i \in Between <=> m.result # "cat" /\ base(m.bot_x) # base(m.bot_o)
      /\ i \in Alone <=> m.result # "cat" /\ m.bot_x = m.bot_o
  BY DEF Between, Alone
<1>4. \A n : lifetime_win(m, n) <=>
        /\ w \in BotIds /\ base(w) = n
        /\ m.bot_x = m.bot_o \/ base(m.bot_x) # n \/ base(m.bot_o) # n
  BY <1>2 DEF lifetime_win
<1>5. \A n : lifetime_loss(m, n) <=>
        /\ m.result # "cat"
        /\ base(m.bot_x) = n \/ base(m.bot_o) = n
        /\ base(m.bot_x) # n \/ base(m.bot_o) # n
        /\ w = NoWinner \/ ~(w \in BotIds /\ base(w) = n)
  BY <1>2 DEF lifetime_loss
<1> HIDE DEF m, w
<1>6. \A n \in Names : lifetime_win(m, n) => n = base(w) /\ (i \in Between \/ i \in Alone)
  BY <1>1, <1>2, <1>3, <1>4
<1>7. i \in Between \/ i \in Alone => \E n \in Names : lifetime_win(m, n)
  <2> SUFFICES ASSUME i \in Between \/ i \in Alone PROVE lifetime_win(m, base(w)) /\ base(w) \in Names
    OBVIOUS
  <2> QED
    BY <1>1, <1>2, <1>3, <1>4
<1>8. /\ \A n \in Names : lifetime_loss(m, n) => i \in Between
      /\ \A n, q \in Names : lifetime_loss(m, n) /\ lifetime_loss(m, q) => n = q
  BY <1>1, <1>2, <1>3, <1>5
<1>9. i \in Between => \E n \in Names : lifetime_loss(m, n)
  <2> SUFFICES ASSUME i \in Between
      PROVE  lifetime_loss(m, base(m.bot_x)) \/ lifetime_loss(m, base(m.bot_o))
    BY <1>2
  <2> QED
    BY <1>1, <1>2, <1>3, <1>5
<1> QED
  BY <1>3, <1>6, <1>7, <1>8, <1>9 DEF m, w

LEMMA Balance ==
  ASSUME TableInv
  PROVE  Cardinality(WinPairs) = Cardinality(LossPairs) + Cardinality(Alone)
<1>1. /\ IsFiniteSet(Between) /\ IsFiniteSet(Alone) /\ IsFiniteSet(Between \cup Alone)
      /\ Between \cap Alone = {} /\ Between \subseteq MatchIds /\ Alone \subseteq MatchIds
  BY Finite, LifetimeFacts DEF Between, Alone
<1>2. Cardinality(WinPairs) = Cardinality(Between \cup Alone)
  <2> DEFINE f == [p \in WinPairs |-> p[2]]
  <2>1. \A p \in WinPairs : p = <<p[1], p[2]>> /\ p[1] \in Names /\ p[2] \in MatchIds
                            /\ lifetime_win(matches[p[2]], p[1])
    BY DEF WinPairs
  <2>2. \A p \in WinPairs : p[1] = base(matches[p[2]].winner_id) /\ p[2] \in Between \cup Alone
    BY <2>1, LifetimeFacts
  <2>3. \A i \in Between \cup Alone : \E p \in WinPairs : p[2] = i
    <3> SUFFICES ASSUME NEW i \in Between \cup Alone PROVE \E p \in WinPairs : p[2] = i
      OBVIOUS
    <3>1. PICK n \in Names : lifetime_win(matches[i], n)
      BY <1>1, LifetimeFacts
    <3>2. <<n, i>> \in WinPairs
      BY <1>1, <3>1 DEF WinPairs
    <3> QED
      BY <3>2
  <2>4. f \in Bijection(WinPairs, Between \cup Alone)
    BY <2>1, <2>2, <2>3 DEF Bijection, Injection, Surjection, IsInjective
  <2> HIDE DEF f
  <2>5. f \in Injection(WinPairs, Between \cup Alone) /\ f \in Surjection(WinPairs, Between \cup Alone)
    BY <2>4 DEF Bijection
  <2> QED
    BY <1>1, <2>5, FS_Injection
<1>3. Cardinality(LossPairs) = Cardinality(Between)
  <2> DEFINE f == [p \in LossPairs |-> p[2]]
  <2>1. \A p \in LossPairs : p = <<p[1], p[2]>> /\ p[1] \in Names /\ p[2] \in MatchIds
                             /\ lifetime_loss(matches[p[2]], p[1])
    BY DEF LossPairs
  <2>2. /\ \A p \in LossPairs : p[2] \in Between
        /\ \A p, q \in LossPairs : p[2] = q[2] => p[1] = q[1]
    BY <2>1, LifetimeFacts
  <2>3. \A i \in Between : \E p \in LossPairs : p[2] = i
    <3> SUFFICES ASSUME NEW i \in Between PROVE \E p \in LossPairs : p[2] = i
      OBVIOUS
    <3>1. PICK n \in Names : lifetime_loss(matches[i], n)
      BY <1>1, LifetimeFacts
    <3>2. <<n, i>> \in LossPairs
      BY <1>1, <3>1 DEF LossPairs
    <3> QED
      BY <3>2
  <2>4. f \in Bijection(LossPairs, Between)
    BY <2>1, <2>2, <2>3 DEF Bijection, Injection, Surjection, IsInjective
  <2> HIDE DEF f
  <2>5. f \in Injection(LossPairs, Between) /\ f \in Surjection(LossPairs, Between)
    BY <2>4 DEF Bijection
  <2> QED
    BY <1>1, <2>5, FS_Injection
<1>4. Cardinality(Between \cup Alone) = Cardinality(Between) + Cardinality(Alone)
  BY <1>1, Disjoint
<1> QED
  BY <1>2, <1>3, <1>4

\* An upload leaves every recorded match the lifetime win or loss it was.
LEMMA UploadKeeps ==
  ASSUME TableInv, NEW name \in Names, CreateBot(name), NEW f \in Names
  PROVE  /\ lifetime_wins(f)' = lifetime_wins(f)
         /\ lifetime_losses(f)' = lifetime_losses(f)
<1>1. /\ matches' = matches /\ MatchIds' = MatchIds
      /\ BotIds' = 1 .. (Len(bots) + 1) /\ BotIds = 1 .. Len(bots) /\ Len(bots) \in Nat
      /\ \A b \in BotIds : bots'[b] = bots[b]
  <2>1. BotIds = 1 .. Len(bots) /\ Len(bots) \in Nat /\ bots \in Seq(BotRows)
    BY IdFacts DEF TableInv
  <2>2. PICK row : bots' = Append(bots, row) /\ matches' = matches
    BY DEF CreateBot
  <2>3. Len(bots') = Len(bots) + 1 /\ DOMAIN bots' = 1 .. (Len(bots) + 1)
        /\ \A b \in 1 .. Len(bots) : bots'[b] = bots[b]
    BY <2>1, <2>2
  <2> QED
    BY <2>1, <2>2, <2>3 DEF MatchIds, BotIds
<1>2. \A b \in BotIds : b \in BotIds' /\ base(b)' = base(b)
  BY <1>1 DEF base
<1>3. NoWinner \notin BotIds /\ NoWinner \notin BotIds'
  BY <1>1 DEF NoWinner
<1>4. \A b \in BotIds \cup {NoWinner} : b \in FamilyOf(f)' <=> b \in FamilyOf(f)
  BY <1>2, <1>3 DEF FamilyOf
<1>5. ASSUME NEW i \in MatchIds
      PROVE  /\ lifetime_win(matches[i], f)' <=> lifetime_win(matches[i], f)
             /\ lifetime_loss(matches[i], f)' <=> lifetime_loss(matches[i], f)
  <2>1. PICK m : m = matches[i]
    OBVIOUS
  <2>2. m.bot_x \in BotIds /\ m.bot_o \in BotIds /\ m.winner_id \in BotIds \cup {NoWinner}
    BY <2>1, WinnerFacts
  <2>3. base(m.bot_x)' = base(m.bot_x) /\ base(m.bot_o)' = base(m.bot_o)
    BY <1>2, <2>2
  <2>4. m.winner_id \in FamilyOf(f)' <=> m.winner_id \in FamilyOf(f)
    BY <1>4, <2>2
  <2>5. matches[i]' = m
    BY <1>1, <2>1
  <2> QED
    BY <2>1, <2>3, <2>4, <2>5 DEF lifetime_win, lifetime_loss
<1>6. /\ {i \in MatchIds : lifetime_win(matches[i], f)}' = {i \in MatchIds : lifetime_win(matches[i], f)}
      /\ {i \in MatchIds : lifetime_loss(matches[i], f)}' = {i \in MatchIds : lifetime_loss(matches[i], f)}
  BY <1>1, <1>5
<1> QED
  BY <1>6 DEF lifetime_wins, lifetime_losses, Count
-----------------------------------------------------------------------------
(* The invariant and what follows from it. *)

\* The rows are as they were recorded, and a page counts no match that it does
\* not list, whatever is recorded between its two queries.
THEOREM Invariance == Spec => []IInv
<1>1. Init => IInv
  <2> SUFFICES ASSUME Init PROVE IInv
    OBVIOUS
  <2>1. bots = <<>> /\ matches = <<>> /\ page = NoPage
    BY DEF Init
  <2>2. BotIds = {} /\ MatchIds = {} /\ bots \in Seq(BotRows) /\ matches \in Seq(MatchRows)
    BY <2>1 DEF BotIds, MatchIds
  <2> QED
    BY <2>1, <2>2 DEF IInv, TableInv, PageInv, NoPage
<1>2. IInv /\ [Next]_vars => IInv'
  <2> SUFFICES ASSUME IInv, [Next]_vars PROVE IInv'
    OBVIOUS
  <2>1. TableInv /\ PageInv
    BY DEF IInv
  <2>2. ASSUME UNCHANGED <<bots, matches>> PROVE TableInv'
    <3>1. BotIds' = BotIds /\ MatchIds' = MatchIds
      BY <2>2 DEF BotIds, MatchIds
    <3>2. \A b : base(b)' = base(b) /\ FamilyOf(base(b))' = FamilyOf(base(b))
      BY <2>2, <3>1 DEF base, FamilyOf
    <3> QED
      BY <2>1, <2>2, <3>1, <3>2 DEF TableInv, Played, base
  <2>3. ASSUME NEW name \in Names, CreateBot(name) PROVE IInv'
    <3>1. TableInv' /\ UNCHANGED <<matches, page>> /\ MatchIds' = MatchIds
      BY <2>1, <2>3, CreateBotStep DEF CreateBot, MatchIds
    <3>2. BotIds \subseteq BotIds' /\ \A b \in BotIds : bots'[b] = bots[b]
      <4>1. BotIds = 1 .. Len(bots) /\ Len(bots) \in Nat /\ bots \in Seq(BotRows)
        BY <2>1, IdFacts DEF TableInv
      <4>2. PICK row : bots' = Append(bots, row)
        BY <2>3 DEF CreateBot
      <4>3. DOMAIN bots' = 1 .. (Len(bots) + 1) /\ \A b \in 1 .. Len(bots) : bots'[b] = bots[b]
        BY <4>1, <4>2
      <4> QED
        BY <4>1, <4>3 DEF BotIds
    <3> QED
      BY <2>1, <3>1, <3>2, PageKept DEF IInv
  <2>4. ASSUME NEW x \in BotIds, NEW o \in BotIds, NEW result \in MatchOutcome,
               RecordMatch(x, o, result)
        PROVE  IInv'
    <3>1. /\ TableInv' /\ MatchIds \subseteq MatchIds'
          /\ \A i \in MatchIds : matches'[i] = matches[i]
      BY <2>1, <2>4, RecordMatchStep
    <3>2. UNCHANGED <<bots, page>> /\ BotIds' = BotIds
      BY <2>4 DEF RecordMatch, BotIds
    <3> QED
      BY <2>1, <3>1, <3>2, PageKept DEF IInv
  <2>5. ASSUME NEW name \in Names, ReadFamily(name) PROVE IInv'
    <3>1. UNCHANGED <<bots, matches>>
      BY <2>5 DEF ReadFamily
    <3> QED
      BY <2>2, <2>5, <3>1, ReadFamilyStep DEF IInv
  <2>6. CASE ReadMatches
    <3>1. UNCHANGED <<bots, matches>>
      BY <2>6 DEF ReadMatches
    <3> QED
      BY <2>2, <2>6, <3>1, ReadMatchesStep DEF IInv
  <2>7. CASE UNCHANGED vars
    <3>1. UNCHANGED <<bots, matches, page>> /\ BotIds' = BotIds /\ MatchIds' = MatchIds
      BY <2>7 DEF vars, BotIds, MatchIds
    <3> QED
      BY <2>1, <2>2, <3>1, PageKept DEF IInv
  <2> QED
    BY <2>3, <2>4, <2>5, <2>6, <2>7 DEF Next
<1> QED
  BY <1>1, <1>2, PTL DEF Spec

\* Every match of a version is in exactly one of the columns of
\* _per_version_stats, however many matches are recorded and by whom.
THEOREM ColumnsCorrect == Spec => []StatsAddUp
<1>1. IInv => StatsAddUp
  <2> SUFFICES ASSUME TableInv, NEW b \in BotIds
      PROVE  clean_wins(b) + forfeit_wins(b) + draws(b) + losses(b)
               = Count(LAMBDA m : Involves(m, b))
    BY DEF IInv, StatsAddUp
  <2>1. Count(LAMBDA m : Involves(m, b)) = Cardinality(Involved(b))
    BY DEF Count, Involved
  <2> QED
    BY <2>1, ColumnsSplit
<1> QED
  BY <1>1, Invariance, PTL

\* The two queries of _lifetime_stats agree: what one family wins, another
\* loses, but for what a bot wins against itself.
THEOREM LifetimeCorrect == Spec => []LifetimeBalances
<1>1. IInv => LifetimeBalances
  <2> SUFFICES ASSUME TableInv PROVE LifetimeBalances
    BY DEF IInv
  <2>1. Count(LAMBDA m : m.bot_x = m.bot_o /\ m.result # "cat") = Cardinality(Alone)
    BY DEF Count, Alone
  <2> QED
    BY <2>1, Balance DEF LifetimeBalances, WinPairs, LossPairs
<1> QED
  BY <1>1, Invariance, PTL

\* The wins by which the leaderboard is ordered are those of the bot that
\* winner_id finds left standing.
THEOREM WinnersCorrect == Spec => []WinnersEarnedIt
<1>1. IInv => WinnersEarnedIt
  <2> SUFFICES ASSUME TableInv, NEW b \in BotIds
      PROVE  wins(b) = Count(LAMBDA m : \/ m.bot_x = b /\ m.result \in {"x_wins", "o_forfeit"}
                                        \/ m.bot_o = b /\ m.result \in {"o_wins", "x_forfeit"})
    BY DEF IInv, WinnersEarnedIt
  <2> DEFINE Standing == {i \in MatchIds :
                \/ matches[i].bot_x = b /\ matches[i].result \in {"x_wins", "o_forfeit"}
                \/ matches[i].bot_o = b /\ matches[i].result \in {"o_wins", "x_forfeit"}}
  <2>1. ASSUME NEW i \in MatchIds
        PROVE  i \in CleanWon(b) \cup ForfeitWon(b) <=> i \in Standing
    <3>1. PICK m : m = matches[i]
      OBVIOUS
    <3>2. /\ m.result \in MatchOutcome /\ m.winner_id = NoWinner <=> m.result = "cat"
          /\ b # NoWinner
          /\ m.winner_id = b <=>
              \/ m.bot_x = b /\ m.result \in {"x_wins", "o_forfeit"}
              \/ m.bot_o = b /\ m.result \in {"o_wins", "x_forfeit"}
      BY <3>1, WinnerFacts, IdFacts DEF NoWinner
    <3> QED
      BY <3>1, <3>2 DEF CleanWon, ForfeitWon, MatchOutcome
  <2>2. CleanWon(b) \cup ForfeitWon(b) = Standing
    BY <2>1 DEF CleanWon, ForfeitWon
  <2> QED
    BY <2>2, ColumnsSplit DEF Count
<1> QED
  BY <1>1, Invariance, PTL

\* The leaderboard has one line for each family, that of its latest version:
\* the CTE latest_bot leaves no family out and lists none twice.
THEOREM LinesCorrect == Spec => []OneLinePerFamily
<1>1. IInv => OneLinePerFamily
  <2> SUFFICES ASSUME TableInv PROVE OneLinePerFamily
    BY DEF IInv
  <2>1. ASSUME NEW name \in Names, FamilyOf(name) # {}
        PROVE  \E i \in DOMAIN leaderboard :
                 base(leaderboard[i]) = name /\ leaderboard[i] = Max(FamilyOf(name))
    <3>1. PICK b \in latest_bot : base(b) = name /\ b = Max(FamilyOf(name))
      BY <2>1, LatestExists
    <3>2. PICK i \in DOMAIN leaderboard : leaderboard[i] = b
      BY LinesFacts
    <3> QED
      BY <3>1, <3>2
  <2>2. Cardinality(latest_bot) = Cardinality({base(b) : b \in BotIds})
    <3> DEFINE families == {base(b) : b \in BotIds}
               f == [b \in latest_bot |-> base(b)]
    <3>1. latest_bot \in SUBSET BotIds /\ IsFiniteSet(latest_bot)
      BY LatestFacts, Finite
    <3>2. \A a, b \in latest_bot : base(a) = base(b) => a = b
      <4> SUFFICES ASSUME NEW a \in latest_bot, NEW b \in latest_bot, base(a) = base(b) PROVE a = b
        OBVIOUS
      <4>1. a \in BotIds /\ b \in BotIds /\ a \in Nat /\ b \in Nat
        BY <3>1, IdFacts
      <4>2. a \in FamilyOf(base(b)) /\ b \in FamilyOf(base(a))
        BY <4>1 DEF FamilyOf
      <4> QED
        BY <4>1, <4>2, LatestFacts
    <3>3. \A y \in families : \E b \in latest_bot : base(b) = y
      <4> SUFFICES ASSUME NEW c \in BotIds PROVE \E b \in latest_bot : base(b) = base(c)
        OBVIOUS
      <4>1. FamilyOf(base(c)) # {}
        BY DEF FamilyOf
      <4> QED
        BY <4>1, LatestExists
    <3>4. f \in Injection(latest_bot, families) /\ f \in Surjection(latest_bot, families)
      BY <3>1, <3>2, <3>3 DEF Injection, Surjection, IsInjective
    <3> HIDE DEF f, families
    <3>5. Cardinality(latest_bot) = Cardinality(families)
      BY <3>1, <3>4, FS_Surjection, FS_Injection
    <3> QED
      BY <3>5 DEF families
  <2> QED
    BY <2>1, <2>2, LinesFacts DEF OneLinePerFamily
<1> QED
  BY <1>1, Invariance, PTL

\* The page of a family, whose counts and whose list come from two queries,
\* counts no match that it does not list under the version.
THEOREM PageListsCorrect == Spec => []FamilyPageListsWhatItCounts
<1>1. IInv => FamilyPageListsWhatItCounts
  <2> SUFFICES ASSUME TableInv, PageInv, page.step = "shown", NEW v \in DOMAIN page.versions
      PROVE  LET s == page.versions[v] IN
             /\ Cardinality(page.grouped[v])
                  >= s.clean_wins + s.forfeit_wins + s.draws + s.losses
             /\ \A m \in page.grouped[v] : Involves(matches[m], v)
    BY DEF IInv, FamilyPageListsWhatItCounts
  <2>1. /\ page.grouped[v] \subseteq Involved(v) /\ Counted(page.versions[v]) \in Nat
        /\ Counted(page.versions[v]) <= Cardinality(page.grouped[v])
    BY DEF PageInv
  <2>2. Cardinality(page.grouped[v]) \in Nat
    BY <2>1, Finite DEF Involved
  <2>3. Cardinality(page.grouped[v]) >= Counted(page.versions[v])
    BY <2>1, <2>2
  <2> QED
    BY <2>1, <2>3 DEF Counted, Involved
<1> QED
  BY <1>1, Invariance, PTL

\* A new version takes over its family's line and leaves the lifetime record
\* of every family what it was.
THEOREM UploadCorrect == Spec => UploadKeepsLifetime
<1>1. IInv /\ [Next]_vars =>
        [bots' # bots =>
           \A name \in Names : /\ lifetime_wins(name)' = lifetime_wins(name)
                               /\ lifetime_losses(name)' = lifetime_losses(name)]_vars
  <2> SUFFICES ASSUME TableInv, Next, bots' # bots, NEW f \in Names
      PROVE  lifetime_wins(f)' = lifetime_wins(f) /\ lifetime_losses(f)' = lifetime_losses(f)
    BY DEF IInv, vars
  <2>1. PICK name \in Names : CreateBot(name)
    BY DEF Next, RecordMatch, ReadFamily, ReadMatches
  <2> QED
    BY <2>1, UploadKeeps
<1> QED
  BY <1>1, Invariance, PTL DEF Spec, UploadKeepsLifetime
=============================================================================
