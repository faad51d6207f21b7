--------------------------- MODULE TranscriptFeed ---------------------------
(***************************************************************************)
(* How what a role writes reaches the translation panel of the browser:    *)
(* Claude appends lines to its transcript file; the tail of                *)
(* claude-transcript-service reads them; translation-service makes panel       *)
(* entries of them, numbers the entries in the session's event log and in  *)
(* the task's feed, and keeps the log in a cache file; the page polls the  *)
(* feed from a cursor.                                                     *)
(*                                                                         *)
(* A file is its lines and whether the last one is still being written; a  *)
(* size and an offset count half lines.  A line is what it says; texts,    *)
(* times and the translation of an entry (TranslationQueue) are left out,  *)
(* and so are the retention limits (1,000 entries and more) and a second   *)
(* session: one role's conversation, one life of the backend.              *)
(***************************************************************************)
EXTENDS Integers, Sequences, FiniteSets, KeptItems

CONSTANTS
  FeedPlans,    \* bounds, of which a behaviour has one: a record of the lines the
                \* role writes, its turns, and how often translation is turned off
                \* or on, the panel cleared (and has been) and the page reloaded
  PollLimit,    \* events one poll returns at most
  LineKinds,    \* lines the role writes, a subset of DOMAIN EventsOf
  Modes,        \* output modes of the settings, a subset of OutputModes
  Races         \* TRUE: a tail may start while the role writes, and anything may
                \* happen in the milliseconds a handler waits for the settings

OutputModes == {"round-final", "pm-final-only", "final-only", "all"}

\* What the parser makes of a line, in the order the entries are published:
\* one event for the texts of a line, one for its thinking, one per tool call.
AssistantEvents ==
  [answer |-> <<"text">>, explains |-> <<"text">>, asks |-> <<"text", "question">>,
   plans |-> <<"todo">>, delegates |-> <<"agent">>, calls |-> <<"tool_use">>,
   thinks |-> <<"thinking">>, synthetic |-> <<>>]
UserEvents == [result |-> <<"tool_result">>, prompt |-> <<>>]
EventsOf == [k \in DOMAIN AssistantEvents \cup DOMAIN UserEvents |->
               IF k \in DOMAIN AssistantEvents THEN AssistantEvents[k] ELSE UserEvents[k]]
\* A structured tool call without a usable payload is no event.
Structured == {"question", "todo", "agent"}

ASSUME FeedAssumption ==
  /\ FeedPlans \subseteq [lines : Nat, turns : Nat, toggles : Nat, clears : Nat, cleared : {0}, reloads : Nat]
  /\ PollLimit \in Nat \ {0} /\ LineKinds \subseteq DOMAIN EventsOf
  /\ Modes \subseteq OutputModes /\ Races \in BOOLEAN

VARIABLES
  lines,      \* lines of the transcript, oldest first
  half,       \* the last line is being written
  turn,       \* [n, from, busy]: prompts so far, first line of the last one, at work
  recorded,   \* what the session record knows of the transcript: "none", "guess", "hook"
  tail,       \* the subscription: [state, key, offset, kept]
  handling,   \* events read whose handler waits for the settings
  log,        \* the session's state: [on, events, next, seen]
  cache,      \* the events the cache file held when the session was last stopped
  feed,       \* the task's feed: [events, next, keys]
  page,       \* the open page: [cursor, shown, reply]
  enabled, mode,   \* settings: translation is on, and its output mode
  sent,       \* events given to translation since the panel was last cleared, in order
  left        \* what is left of the plan, and how often the panel was cleared

feedVars == <<lines, half, turn, recorded, tail, handling, log, cache, feed, page, enabled,
              mode, sent, left>>
role == <<lines, half, turn, recorded>>
publishing == <<log, cache, feed>>

NoTail == [state |-> "none", key |-> "none", offset |-> 0, kept |-> 0]
NoLog  == [on |-> FALSE, events |-> <<>>, next |-> 1, seen |-> {}]
NoPage == [cursor |-> 1, shown |-> <<>>, reply |-> <<>>]

Ids(events) == {events[i].id : i \in 1..Len(events)}
EventId(n, k) == <<"line", n, k>>
LineEvents(n) == [i \in 1..Len(EventsOf[lines[n]]) |-> EventId(n, EventsOf[lines[n]][i])]
EventsIn(ns) ==     \* the events of the lines numbered in ns, in file order
  LET upTo[n \in 0..Len(lines)] ==
        IF n = 0 THEN <<>> ELSE upTo[n - 1] \o (IF n \in ns THEN LineEvents(n) ELSE <<>>)
  IN upTo[Len(lines)]
Size == 2 * Len(lines) - (IF half THEN 1 ELSE 0)
Complete(n) == n \in 1..Len(lines) /\ (n < Len(lines) \/ ~half)

-----------------------------------------------------------------------------
(* The session's event log and the task's feed.                            *)

\* appendEvent and appendTaskFeedEvent: both number the event, and the feed
\* takes no event of the session it has seen under that number.
Published(l, f, id) ==
  [log  |-> [l EXCEPT !.events = Append(@, [seq |-> l.next, id |-> id]), !.next = @ + 1],
   feed |-> IF l.next \in f.keys THEN f
            ELSE [events |-> Append(f.events, [seq |-> f.next, id |-> id]),
                  next |-> f.next + 1, keys |-> f.keys \cup {l.next}]]

\* Mutant: a log read from the cache does not remember what it has translated.
ForgetsSeen(l) ==
  IF l.on THEN l
  ELSE [on |-> TRUE, events |-> cache,
        next |-> IF cache = <<>> THEN 1 ELSE cache[Len(cache)].seq + 1, seen |-> {}]
\* The cache is the log a backend or a subscription that starts goes on from.
Loaded(l) ==
  IF l.on THEN l
  ELSE [on |-> TRUE, events |-> cache,
        next |-> IF cache = <<>> THEN 1 ELSE cache[Len(cache)].seq + 1,
        seen |-> Ids(cache)]
Synced(l, f) ==
  LET missing == SelectSeq(l.events, LAMBDA e : e.seq \notin f.keys)
  IN [events |-> f.events \o [i \in 1..Len(missing) |->
                    [seq |-> f.next + i - 1, id |-> missing[i].id]],
      next |-> f.next + Len(missing),
      keys |-> f.keys \cup {missing[i].seq : i \in 1..Len(missing)}]
Prepares(l) == log' = l /\ feed' = Synced(l, feed)

\* One unit of the plan.
Spends(what) == left[what] > 0 /\ left' = [left EXCEPT ![what] = @ - 1]

-----------------------------------------------------------------------------
(* The role writes its transcript, and its hooks say where that is.        *)

BeginLine(k) ==
  /\ turn.busy /\ ~half /\ Spends("lines")
  /\ lines' = Append(lines, k) /\ half' = TRUE
  /\ UNCHANGED <<turn, recorded, tail, handling, publishing, page, enabled, mode, sent>>
EndLine ==
  /\ half /\ half' = FALSE
  /\ UNCHANGED <<lines, turn, recorded, tail, handling, publishing, page, enabled, mode, sent, left>>

\* A turn's marks in the panel, also while translation is off.
Mark(t, end) == <<"turn", t, end>>
Turns(l) == {t \in 1..turn.n + 1 : Mark(t, "start") \in Ids(l.events)}
OpenTurns(l) == {t \in Turns(l) : Mark(t, "end") \notin Ids(l.events)}
Records(end) ==
  LET l == Loaded(log)
      f == Synced(l, feed)
      t == IF OpenTurns(l) # {} THEN CHOOSE t \in OpenTurns(l) : TRUE
           ELSE IF end = "start" THEN Cardinality(Turns(l)) + 1 ELSE 0
      new == Published(l, f, Mark(t, end))
  IN IF t = 0 \/ Mark(t, end) \in Ids(l.events)
     THEN log' = l /\ feed' = f
     ELSE log' = new.log /\ feed' = new.feed

Prompt ==       \* the user or a message gives the role its next turn
  /\ ~turn.busy /\ Spends("turns")
  /\ turn' = [n |-> turn.n + 1, from |-> Len(lines) + 1, busy |-> TRUE]
  /\ recorded' = "hook"
  /\ Records("start")
  /\ UNCHANGED <<lines, half, tail, handling, cache, page, enabled, mode, sent>>
StopHook ==
  /\ turn.busy /\ ~half
  /\ turn' = [turn EXCEPT !.busy = FALSE]
  /\ Records("end")
  /\ UNCHANGED <<lines, half, recorded, tail, handling, cache, page, enabled, mode, sent, left>>

-----------------------------------------------------------------------------
(* The tail: claude-transcript-service.                                    *)

\* What a subscription is bound to; none before the session is known.
Key == recorded
\* The recorded path, the path Claude's encoding of the directory should give
\* and a search by session id all find the same file, once there is one.
Resolved == Size > 0

\* A handler starts with the events the log has not seen.
Delivers(l, ids) == handling' = handling \o Kept(ids, {i \in DOMAIN ids : ids[i] \notin l.seen})

\* Mutant: a tail starts at the end of the file.
NoReplay(from) == from = Len(lines) + 1
\* Which lines are replayed: those of the turn, and those written in the seconds
\* before it, to which all belongs that the tail before, which looked every
\* second, had not read.
ReplayFrom(from) == from \in 1..turn.from /\ (tail.state # "none" => from <= tail.offset \div 2 + 1)

\* start: after the replay (a half line is no JSON and gives nothing) reading
\* goes on from the size the file had before it.
TailStarts(l, key) ==
  \E from \in 1..Len(lines) + 1,
     size \in {Size} \cup (IF Races /\ Size > 1 THEN {Size - 1} ELSE {}) :
    /\ ReplayFrom(from)
    /\ Delivers(l, EventsIn({n \in from..Len(lines) : Complete(n)}))
    /\ tail' = [state |-> "reads", key |-> key, offset |-> size, kept |-> 0]

\* startTranscriptTail: a subscription to the same transcript stays.
StartTail(l) ==
  IF Key = "none" \/ (tail.state # "none" /\ tail.key = Key) THEN UNCHANGED <<tail, handling>>
  ELSE /\ Races \/ ~half
       /\ IF Resolved THEN TailStarts(l, Key)
          ELSE tail' = [NoTail EXCEPT !.state = "waits", !.key = Key] /\ UNCHANGED handling

RetrySubscribe ==
  /\ tail.state = "waits" /\ Resolved /\ (Races \/ ~half)
  /\ TailStarts(log, tail.key)
  /\ UNCHANGED <<role, publishing, page, enabled, mode, sent, left>>

\* The lines that end in what is read; one whose beginning was not read is lost.
Read(first, last) == {n \in 1..Len(lines) : 2 * n \in first..last /\ 2 * n - 1 \in first..last}
FlushTail ==
  /\ tail.state = "reads" /\ Size # tail.offset
  /\ IF Size < tail.offset
     THEN tail' = [tail EXCEPT !.offset = Size, !.kept = 0] /\ UNCHANGED handling
     ELSE /\ Delivers(log, EventsIn(Read(tail.offset - tail.kept + 1, Size)))
          /\ tail' = [tail EXCEPT !.offset = Size, !.kept = IF half THEN 1 ELSE 0]
  /\ UNCHANGED <<role, publishing, page, enabled, mode, sent, left>>
-----------------------------------------------------------------------------
(* translation-service: entries, and the settings that start and stop it.  *)

Kind(id) == id[3]
\* Which events go to translation; a reply is the last text of a turn.
IsFinal(id) == lines[id[2]] = "answer"
Translates(id) ==
  CASE Kind(id) = "text" -> mode = "all" \/ (mode # "round-final" /\ IsFinal(id))
    [] Kind(id) \in Structured -> mode = "all"
    [] OTHER -> FALSE
Displayed(id) == Kind(id) # "thinking"

HandleEvent ==
  \E i \in DOMAIN handling :
    LET id == handling[i]
        new == Published([Loaded(log) EXCEPT !.seen = @ \cup {id}], feed, id)
    IN /\ Races \/ i = 1
       /\ handling' = SubSeq(handling, 1, i - 1) \o SubSeq(handling, i + 1, Len(handling))
       /\ IF Displayed(id)
          THEN /\ log' = new.log /\ feed' = new.feed
               /\ sent' = IF Translates(id) THEN Append(sent, id) ELSE sent
          ELSE UNCHANGED <<log, feed, sent>>
       /\ UNCHANGED <<role, tail, cache, page, enabled, mode, left>>

\* The coordinator's tick: listeners while translation is on, none while off.
StartSession ==
  /\ enabled /\ (~log.on \/ (Key # "none" /\ (tail.state = "none" \/ tail.key # Key)))
  /\ Prepares(Loaded(log)) /\ StartTail(Loaded(log))
  /\ UNCHANGED <<role, cache, page, enabled, mode, sent, left>>
StopTask ==
  /\ ~enabled /\ log.on
  /\ tail' = NoTail /\ log' = NoLog /\ cache' = log.events
  /\ UNCHANGED <<role, handling, feed, page, enabled, mode, sent, left>>

Toggle ==
  /\ Spends("toggles") /\ enabled' = ~enabled
  /\ UNCHANGED <<role, tail, handling, publishing, page, mode, sent>>

\* The panel's Clear: the page forgets its entries, then the session its log.
ClearSession ==
  /\ log.on /\ left.cleared < left.clears
  /\ left' = [left EXCEPT !.cleared = @ + 1]
  /\ page' = [page EXCEPT !.shown = <<>>]
  /\ log' = [log EXCEPT !.events = <<>>, !.next = 1] /\ sent' = <<>>
  /\ UNCHANGED <<role, tail, handling, cache, feed, enabled, mode>>

-----------------------------------------------------------------------------
(* The page.                                                               *)

\* pollTaskFeed: the log is prepared, the tail started, then the feed is read
\* from the page's cursor.
PollFeed ==
  /\ enabled /\ page.reply = <<>>
  /\ Prepares(Loaded(log)) /\ StartTail(Loaded(log))
  /\ LET news == SelectSeq(feed'.events, LAMBDA e : e.seq >= page.cursor)
         some == SubSeq(news, 1, IF Len(news) < PollLimit THEN Len(news) ELSE PollLimit)
     IN page' = [page EXCEPT !.reply = <<[events |-> some,
                   next |-> IF some = <<>> THEN page.cursor ELSE some[Len(some)].seq + 1]>>]
  /\ UNCHANGED <<role, cache, enabled, mode, sent, left>>

\* applyTranslationTaskFeed: an entry that is shown is replaced in its place.
Upserted(shown, events) ==
  LET upTo[i \in 0..Len(events)] ==
        IF i = 0 THEN shown
        ELSE IF \E j \in 1..Len(upTo[i - 1]) : upTo[i - 1][j] = events[i].id
             THEN upTo[i - 1] ELSE Append(upTo[i - 1], events[i].id)
  IN upTo[Len(events)]
ApplyFeed ==
  /\ page.reply # <<>>
  /\ page' = [page EXCEPT !.cursor = page.reply[1].next, !.reply = <<>>,
                          !.shown = Upserted(@, page.reply[1].events)]
  /\ UNCHANGED <<role, tail, handling, publishing, enabled, mode, sent, left>>
Reload ==
  /\ Spends("reloads") /\ page' = NoPage
  /\ UNCHANGED <<role, tail, handling, publishing, enabled, mode, sent>>

-----------------------------------------------------------------------------
\* A fresh session has no transcript yet; a resumed one the path it should have.
FeedInit ==
  /\ lines = <<>> /\ half = FALSE /\ turn = [n |-> 0, from |-> 1, busy |-> FALSE]
  /\ recorded \in {"none", "guess"}
  /\ tail = NoTail /\ handling = <<>>
  /\ log = NoLog /\ cache = <<>>
  /\ feed = [events |-> <<>>, next |-> 1, keys |-> {}]
  /\ page = NoPage /\ enabled \in BOOLEAN /\ mode \in Modes /\ sent = <<>>
  /\ left \in FeedPlans

FeedNext ==
  \/ HandleEvent
  \/ /\ Races \/ handling = <<>>
     /\ \/ \E k \in LineKinds : BeginLine(k)
        \/ EndLine \/ Prompt \/ StopHook
        \/ RetrySubscribe \/ FlushTail \/ StartSession \/ StopTask \/ Toggle \/ ClearSession
        \/ PollFeed \/ ApplyFeed \/ Reload

\* Timers and polls go on, and a line that is begun is written to its end; a
\* role's prompts and lines need not come.
FeedFairness ==
  /\ WF_feedVars(EndLine)
  /\ WF_feedVars(RetrySubscribe) /\ WF_feedVars(FlushTail) /\ WF_feedVars(HandleEvent)
  /\ WF_feedVars(StartSession) /\ WF_feedVars(PollFeed) /\ WF_feedVars(ApplyFeed)
FeedSpec == FeedInit /\ [][FeedNext]_feedVars /\ FeedFairness

-----------------------------------------------------------------------------
(* Properties.                                                             *)

\* While translation is on, what the role says, from the start of the turn in
\* which the tail began to read, gets to the panel of the open page: no half
\* line, late start of the tail, cursor, batch, pause or reload loses a line.
\* (A cleared panel numbers its events anew, and the feed takes no number twice.)
Shown(id) == \E i \in 1..Len(page.shown) : page.shown[i] = id
OnPanel(n) == n <= Len(lines) /\ \A i \in DOMAIN LineEvents(n) :
                                    Displayed(LineEvents(n)[i]) => Shown(LineEvents(n)[i])
LinesReachPanel ==
  \A n \in UNION {1..p.lines : p \in FeedPlans} :
    (tail.state = "reads" /\ Complete(n) /\ n >= turn.from) ~> (~enabled \/ left.cleared > 0 \/ OnPanel(n))

\* No text goes to the Translator twice, however often the transcript is
\* replayed: for a new path, after a pause of translation, for a reload.  Only
\* a text that the panel's Clear made the session forget may go again.
TranslatedOnce == \A i, j \in 1..Len(sent) : sent[i] = sent[j] => i = j
=============================================================================
