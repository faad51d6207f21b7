------------------------- MODULE MCTranslationQueue -------------------------
(* Instances of the two halves of the translation panel, for TLC: a        *)
(* behaviour is one of the queue and its Translator, or one of the         *)
(* transcript on its way to the page.                                      *)
EXTENDS TranslationQueue, TranscriptFeed
VARIABLE part

TwoReplies == {1, 2}
FirstReply == {1}
SecondReply == {2}
OneInput == {3}
AllTools == {"file", "bootstrap", "memory-update"}

SomeLines == {"answer", "asks", "thinks"}
OneMode == {"final-only"}
NoFeed == [lines |-> 0, turns |-> 0, toggles |-> 0, clears |-> 0, cleared |-> 0, reloads |-> 0]
ShortFeeds ==
  {NoFeed, [NoFeed EXCEPT !.lines = 2, !.turns = 2],
   [NoFeed EXCEPT !.lines = 2, !.turns = 1, !.reloads = 1],
   [NoFeed EXCEPT !.lines = 1, !.turns = 1, !.toggles = 2, !.clears = 1]}

PanelInit ==
  /\ Init /\ FeedInit
  /\ \/ part = "queue" /\ left = NoFeed /\ ~enabled /\ recorded = "none"
     \/ part = "transcript" /\ left # NoFeed
PanelNext ==
  /\ UNCHANGED part
  /\ \/ part = "queue" /\ Next /\ UNCHANGED feedVars
     \/ part = "transcript" /\ FeedNext /\ UNCHANGED vars
PanelSpec ==
  PanelInit /\ [][PanelNext]_<<part, vars, feedVars>> /\ Fairness /\ FeedFairness
=============================================================================
