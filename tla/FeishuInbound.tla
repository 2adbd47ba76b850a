---------------------------- MODULE FeishuInbound ----------------------------
(***************************************************************************)
(* Messages received by one Feishu application (feishu/adapter.go,         *)
(* channel_runtime.go): the bot's own identity, the conversion of a        *)
(* message, which the server may deliver again, the hand-over to a         *)
(* goroutine of its own, and the expansion of merged forwards.             *)
(*                                                                         *)
(* A message is the record of what the conversion tells apart; a merged    *)
(* forward names messages, which may again be merged forwards, and which   *)
(* are fetched one by one.                                                 *)
(***************************************************************************)
EXTENDS Integers, Sequences, FiniteSets, SequencesExt

CONSTANTS
  Messages,     \* a sequence of messages as the server has them
  Allowed,      \* users that may use the bot
  Self,         \* the bot's open id
  Window,       \* for which a message is remembered
  Retry,        \* between two fetches of an incomplete profile
  MaxDepth,     \* mergeForwardMaxDepth
  Stored,       \* ids of the messages that can be fetched
  Contents,     \* contents of a stored message: its kind, and the ids of a merged forward
  MaxTime,      \* bound: the clock
  MaxDeliveries \* bound: deliveries

Unknown == 0
NoTime == -1

VARIABLES
  now,
  started,  \* "no", "yes" or "failed"
  profile,  \* open id and name as far as they are known
  lastTry,
  seen,     \* per message: when it was recorded, or NoTime
  handed,   \* messages handed to a goroutine, with the identity they were given
  count,
  forest,   \* per stored message: its contents
  missing,  \* stored messages whose fetch fails
  expanded  \* per handed message: what its forwards were expanded to, or <<>>

vars == <<now, started, profile, lastTry, seen, handed, count, forest, missing, expanded>>

NoProfile == [id |-> Unknown, name |-> FALSE]

Init ==
  /\ now = 0 /\ started = "no" /\ profile = NoProfile /\ lastTry = NoTime
  /\ seen = [m \in DOMAIN Messages |-> NoTime]
  /\ handed = <<>> /\ count = 0
  /\ forest \in [Stored -> Contents]
  /\ missing \in SUBSET Stored
  /\ expanded = [i \in DOMAIN Messages |-> <<>>]
-----------------------------------------------------------------------------
(* The bot's profile.                                                      *)
\* fetchBotProfile: the token or the information may fail, the name be blank
Fetched == {NoProfile, [id |-> Self, name |-> FALSE], [id |-> Self, name |-> TRUE]}

\* storeBotProfile: what is blank does not replace what is known
Kept(p) == [id |-> IF p.id # Unknown THEN p.id ELSE profile.id, name |-> p.name \/ profile.name]

\* cachedBotProfileForFetch
Incomplete == profile.id = Unknown \/ ~profile.name
DueForFetch == Incomplete /\ (lastTry = NoTime \/ now - lastTry >= Retry)

\* BotOpenID, BotName: a fetch, at most one every Retry
EnsureProfile ==
  IF DueForFetch
    THEN lastTry' = now /\ \E p \in Fetched : profile' = Kept(p)
    ELSE UNCHANGED <<lastTry, profile>>

Ask ==
  /\ DueForFetch /\ EnsureProfile
  /\ UNCHANGED <<now, started, seen, handed, count, forest, missing, expanded>>

\* RefreshBotOpenID: fetches in any case
Refresh ==
  /\ \/ \E p \in Fetched \ {NoProfile} : profile' = Kept(p) /\ UNCHANGED lastTry
     \/ EnsureProfile
  /\ UNCHANGED <<now, started, seen, handed, count, forest, missing, expanded>>

\* Start, once: the endpoint may refuse the application
Start ==
  /\ started = "no" /\ started' \in {"yes", "failed"}
  /\ EnsureProfile
  /\ UNCHANGED <<now, seen, handed, count, forest, missing, expanded>>
-----------------------------------------------------------------------------
(* Conversion.                                                             *)
\* mentionOnlyPrimaryOnCommand: a text that is one mention is a command
IsPrimaryCommand(m) ==
  m.type = "text" /\ m.bare /\ Cardinality(m.mentions) = 1

MentionedSelf(m) == profile.id # Unknown /\ profile.id \in m.mentions

\* the group policy is the application's: it may drop any group message
Admitted(m) == m.user \in Allowed

\* duplicate: records of Window ago are forgotten first
IsRecent(i) == seen[i] # NoTime /\ now - seen[i] <= Window
Recorded(i) ==
  [j \in DOMAIN Messages |->
     IF j = i THEN now ELSE IF IsRecent(j) THEN seen[j] ELSE NoTime]

\* the switch over message types, and the empty message
HasContent(m) == m.type \in {"text", "post", "image", "file", "merge"} /\ (m.valid \/ IsPrimaryCommand(m))

\* bridgeChannelMessage: go onMessage
Receive(i, passes) ==
  LET m == Messages[i] IN
  /\ started = "yes" /\ count < MaxDeliveries /\ count' = count + 1
  /\ IF ~Admitted(m) \/ (m.group /\ ~passes) \/ IsRecent(i)
       THEN UNCHANGED <<seen, handed>>
       ELSE /\ seen' = Recorded(i)
            /\ handed' = IF HasContent(m)
                           THEN Append(handed, [of |-> i, at |-> now, self |-> MentionedSelf(m)])
                           ELSE handed
  /\ UNCHANGED <<now, started, profile, lastTry, forest, missing, expanded>>

-----------------------------------------------------------------------------
(* Merged forwards.  A part is the message it stands for and how: itself,   *)
(* or a line that says why it is not expanded.                              *)
Part(id, how) == [id |-> id, how |-> how]
Nothing == [parts |-> <<>>, failed |-> FALSE]
Failure == [parts |-> <<>>, failed |-> TRUE]
Shown(part) == [parts |-> <<part>>, failed |-> FALSE]
Joined(a, b) == [parts |-> a.parts \o b.parts, failed |-> a.failed \/ b.failed]

Unreadable(id) == id \in missing \/ forest[id].kind = "invalid"

RECURSIVE Resolve(_, _, _)

\* Mutant of Below: the message stays on the path when its expansion returns
BelowForever(id, path) == Stored

\* path: the messages that are being expanded, this one with them
Below(id, path) == path \cup {id}

\* resolveForwardedMessage, resolveFetchedMessage
ResolveOne(id, depth, path) ==
  CASE id \in path -> Shown(Part(id, "cycle"))
    [] id \notin path /\ Unreadable(id) -> Failure
    [] id \notin path /\ ~Unreadable(id) /\ forest[id].kind # "merge" ->
         Shown(Part(id, forest[id].kind))
    [] OTHER -> IF depth >= MaxDepth THEN Shown(Part(id, "limit"))
                  ELSE Resolve(forest[id].ids, depth + 1, Below(id, path))

\* resolveMergeForwardMessages: one failure does not stop the others
Resolve(ids, depth, path) ==
  FoldLeft(LAMBDA sum, id : Joined(sum, ResolveOne(id, depth, path)), Nothing, ids)

\* ResolveMergeForward, in the goroutine of the handed message
Expand(k) ==
  LET i == handed[k].of IN
  /\ k \in DOMAIN handed /\ Messages[i].type = "merge" /\ expanded[i] = <<>>
  /\ expanded' = [expanded EXCEPT ![i] = <<Resolve(Messages[i].ids, 0, {})>>]
  /\ UNCHANGED <<now, started, profile, lastTry, seen, handed, count, forest, missing>>

Tick ==
  /\ now < MaxTime /\ now' = now + 1
  /\ UNCHANGED <<started, profile, lastTry, seen, handed, count, forest, missing, expanded>>

Next ==
  \/ Ask \/ Refresh \/ Start \/ Tick
  \/ \E i \in DOMAIN Messages, passes \in BOOLEAN : Receive(i, passes)
  \/ \E k \in DOMAIN handed : Expand(k)
-----------------------------------------------------------------------------
(* What an expansion must be, without its recursion: a place is the indices  *)
(* that lead to a message from the list of the forward.                      *)
Places ==
  UNION {[1..n -> 1..2] : n \in 1..(MaxDepth + 1)}

\* the messages on the way to a place, <<>> when it leads nowhere
Way(ids, place) ==
  LET way[n \in 0..Len(place)] ==
        IF n = 0 THEN <<>>
        ELSE LET list == IF n = 1 THEN ids
                         ELSE IF way[n - 1] = <<>> THEN <<>>
                           ELSE forest[Last(way[n - 1])].ids
             IN IF place[n] \in DOMAIN list THEN Append(way[n - 1], list[place[n]]) ELSE <<>>
  IN way[Len(place)]

\* a place is reached when no message before it is missing or on the way twice
Reached(way) ==
  \A n \in 1..(Len(way) - 1) : way[n] \notin missing /\ ~(\E k \in 1..(n - 1) : way[k] = way[n])

Repeats(way) == \E k \in 1..(Len(way) - 1) : way[k] = Last(way)

PartAt(way) ==
  LET id == Last(way) IN
  CASE Repeats(way) -> <<Part(id, "cycle")>>
    [] ~Repeats(way) /\ Unreadable(id) -> <<>>
    [] ~Repeats(way) /\ ~Unreadable(id) /\ forest[id].kind # "merge" ->
         <<Part(id, forest[id].kind)>>
    [] OTHER -> IF Len(way) > MaxDepth THEN <<Part(id, "limit")>> ELSE <<>>

Before(p, q) ==
  \/ \E n \in DOMAIN p \cap DOMAIN q : p[n] < q[n] /\ \A k \in 1..(n - 1) : p[k] = q[k]
  \/ Len(p) < Len(q) /\ p = SubSeq(q, 1, Len(p))

Expected(ids) ==
  LET real == {p \in Places : Way(ids, p) # <<>> /\ Reached(Way(ids, p))}
      nth(n) == CHOOSE p \in real : Cardinality({q \in real : Before(q, p)}) = n - 1
  IN FlattenSeq([n \in 1..Cardinality(real) |-> PartAt(Way(ids, nth(n)))])

\* An expanded forward shows every message it leads to, once for each way that
\* leads there and in their order: a message is left out only when it cannot be
\* fetched or read, is called a cycle only when it contains itself, and a merged
\* forward is cut off only at the depth limit (resolveForwardedMessage's path).
ForwardsExpanded ==
  \A i \in DOMAIN Messages :
    expanded[i] # <<>> => expanded[i][1].parts = Expected(Messages[i].ids)

\* A message is handed on once for all its deliveries within the window.
HandedOnce ==
  \A j, k \in DOMAIN handed :
    (j < k /\ handed[j].of = handed[k].of) => handed[k].at - handed[j].at > Window
=============================================================================
