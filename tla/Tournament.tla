----------------------------- MODULE Tournament -----------------------------
(***************************************************************************)
(* What the pipeline promises: an all-play-all tournament that bots join   *)
(* while it runs.  A match between two bots of the field is scheduled,     *)
(* lies on the deck until it is played, and then has a result.  A bot      *)
(* counts as entered only when it has been scheduled against every bot     *)
(* entered before it, and itself, in both roles.  Matches scheduled before *)
(* the deck is open are lost.  An interruption loses a match on the deck,  *)
(* or puts one that has been played back on it: one at most.               *)
(***************************************************************************)
EXTENDS Naturals

CONSTANT Bots

VARIABLES
  field,      \* the bots that take part
  entered,    \* those that have been scheduled against one another
  scheduled,  \* how often each pairing (x, o) has been scheduled
  deck,       \* how many of its matches are still to be played
  results,    \* how many have been played
  open,       \* whether the deck takes matches
  stops       \* interruptions

tournament == <<field, entered, scheduled, deck, results, open, stops>>

Matches == Bots \X Bots

More(f, p) == [f EXCEPT ![p] = @ + 1]

Fewer(f, p) == [f EXCEPT ![p] = @ - 1]

TournamentInit ==
  /\ field = {} /\ entered = {}
  /\ scheduled = [p \in Matches |-> 0]
  /\ deck = [p \in Matches |-> 0]
  /\ results = [p \in Matches |-> 0]
  /\ open \in BOOLEAN
  /\ stops = 0

Join(b) ==
  /\ field' = field \cup {b}
  /\ UNCHANGED <<entered, scheduled, deck, results, open, stops>>

OpenDeck ==
  /\ open' = TRUE
  /\ UNCHANGED <<field, entered, scheduled, deck, results, stops>>

Schedule(p) ==
  /\ {p[1], p[2]} \subseteq field
  /\ scheduled' = More(scheduled, p)
  /\ deck' = IF open THEN More(deck, p) ELSE deck
  /\ UNCHANGED <<field, entered, results, open, stops>>

Enter(b) ==
  /\ b \in field
  /\ \A a \in entered \cup {b} : scheduled[<<a, b>>] > 0 /\ scheduled[<<b, a>>] > 0
  /\ entered' = entered \cup {b}
  /\ UNCHANGED <<field, scheduled, deck, results, open, stops>>

PlayOne(p) ==
  /\ deck[p] > 0
  /\ deck' = Fewer(deck, p)
  /\ results' = More(results, p)
  /\ UNCHANGED <<field, entered, scheduled, open, stops>>

Lose(p) == deck[p] > 0 /\ deck' = Fewer(deck, p)

Repeat(p) == results[p] > 0 /\ deck' = More(deck, p)

Interrupt ==
  /\ stops' = stops + 1
  /\ deck' = deck \/ \E p \in Matches : Lose(p) \/ Repeat(p)
  /\ UNCHANGED <<field, entered, scheduled, results, open>>

TournamentNext ==
  \/ \E b \in Bots : Join(b) \/ Enter(b)
  \/ \E p \in Matches : Schedule(p) \/ PlayOne(p)
  \/ OpenDeck \/ Interrupt

TournamentSpec == TournamentInit /\ [][TournamentNext]_tournament

=============================================================================
