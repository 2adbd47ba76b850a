------------------------------ MODULE FeishuApi ------------------------------
(***************************************************************************)
(* Calls of one Feishu application (feishu/adapter.go,                     *)
(* message_rate_limit.go, token_refresh.go): messages created, patched and *)
(* replied to, reactions added and removed, by concurrent goroutines.      *)
(*                                                                         *)
(* Created messages take the slots of one pacer, patches those of a pacer  *)
(* of their message, which a sweep forgets when it is idle.  All calls use *)
(* one cached tenant token; one that the server refuses clears the cache   *)
(* and is sent once more.  The SDK's read of the cache, and the fetch that *)
(* fills it, are one step here.                                            *)
(***************************************************************************)
EXTENDS Integers, FiniteSets

CONSTANTS
  Calls,         \* the goroutines
  Kind,          \* [Calls -> {"create", "patch", "reply", "react", "unreact"}]
  Target,        \* [Calls -> messages]
  Interval,      \* of the slots of one pacer
  IdleTTL,       \* after which a sweep forgets a pacer
  SweepInterval,
  MaxTime,       \* bound: the clock
  MaxRotations,  \* bound: times the server changes the token
  MaxTimeouts    \* bound: calls whose context ends

Messages == {Target[c] : c \in Calls}
Unset == 0

VARIABLES
  now,
  token,      \* the token the server accepts
  cache,      \* the cached one, or Unset
  call,       \* per call: its step, slot, token, tries, and how it ended
  next,       \* the next free slot of created messages
  pacer,      \* per message: the next free slot and the last use, or NoPacer
  lastSweep,
  reactions,  \* per message: the reaction it is recorded to have, or Unset
  placed,     \* the reactions the message really has
  timeouts

apiVars == <<now, token, cache, call, next, pacer, lastSweep, reactions, placed, timeouts>>

NoPacer == [next |-> -1, used |-> -1]
Idle == [at |-> "idle", slot |-> -1, tok |-> Unset, tries |-> 0, end |-> "none",
         since |-> 0, id |-> Unset]

ApiInit ==
  /\ now = 0 /\ token = 1 /\ cache \in {Unset, 1}
  /\ call = [c \in Calls |-> Idle]
  /\ next = 0 /\ pacer = [m \in Messages |-> NoPacer] /\ lastSweep = -1
  /\ reactions = [m \in Messages |-> Unset] /\ placed = [m \in Messages |-> {}]
  /\ timeouts = 0

Set(c, step) == call' = [call EXCEPT ![c].at = step]
End(c, how) == call' = [call EXCEPT ![c].at = "done", ![c].end = how]
-----------------------------------------------------------------------------
(* Pacing.                                                                 *)
\* reserve: the slot is taken for good, its caller may give up waiting for it
Slot(free) == IF free > now THEN free ELSE now

\* sweep, at the first use of any pacer after SweepInterval
Swept ==
  IF lastSweep = -1 \/ now - lastSweep >= SweepInterval
    THEN [m \in Messages |->
            IF now - pacer[m].used >= IdleTTL THEN NoPacer ELSE pacer[m]]
    ELSE pacer

\* Mutant of EntryFor: the use is not noted
EntryForUnused(m) == IF Swept[m] = NoPacer THEN [next |-> 0, used |-> now] ELSE Swept[m]

\* entryFor: the pacer of message m as a caller at this time finds it
EntryFor(m) ==
  IF Swept[m] = NoPacer THEN [next |-> 0, used |-> now] ELSE [Swept[m] EXCEPT !.used = now]

Paced(c, slot) ==
  call' = [call EXCEPT ![c].at = "waits", ![c].slot = slot, ![c].since = token]

CreateMessage(c) ==
  /\ call[c].at = "idle" /\ Kind[c] = "create"
  /\ Paced(c, Slot(next)) /\ next' = Slot(next) + Interval
  /\ UNCHANGED <<now, token, cache, pacer, lastSweep, reactions, placed, timeouts>>

PatchMessage(c) ==
  LET m == Target[c]
      entry == EntryFor(m) IN
  /\ call[c].at = "idle" /\ Kind[c] = "patch"
  /\ Paced(c, Slot(entry.next))
  /\ pacer' = [Swept EXCEPT ![m] = [entry EXCEPT !.next = Slot(entry.next) + Interval]]
  /\ lastSweep' = IF lastSweep = -1 \/ now - lastSweep >= SweepInterval THEN now ELSE lastSweep
  /\ UNCHANGED <<now, token, cache, next, reactions, placed, timeouts>>

\* replies are not paced
ReplyMessage(c) ==
  /\ call[c].at = "idle" /\ Kind[c] = "reply"
  /\ call' = [call EXCEPT ![c].at = "ready", ![c].since = token]
  /\ UNCHANGED <<now, token, cache, next, pacer, lastSweep, reactions, placed, timeouts>>

\* Wait: the slot is reached
SlotReached(c) ==
  /\ call[c].at = "waits" /\ now >= call[c].slot
  /\ Set(c, "ready")
  /\ UNCHANGED <<now, token, cache, next, pacer, lastSweep, reactions, placed, timeouts>>

\* Wait, or the request: the context of the call ends first
GiveUp(c) ==
  /\ call[c].at \in {"waits", "ready", "sent"} /\ timeouts < MaxTimeouts
  /\ End(c, "timeout") /\ timeouts' = timeouts + 1
  /\ UNCHANGED <<now, token, cache, next, pacer, lastSweep, reactions, placed>>
-----------------------------------------------------------------------------
(* Tokens.                                                                 *)
\* the SDK sends the request with the cached token, which it fetches if none is
Send(c) ==
  LET t == IF cache = Unset THEN token ELSE cache IN
  /\ call[c].at = "ready"
  /\ cache' = t
  /\ call' = [call EXCEPT ![c].at = "sent", ![c].tok = t, ![c].tries = @ + 1]
  /\ UNCHANGED <<now, token, next, pacer, lastSweep, reactions, placed, timeouts>>

\* Mutant of CanRetry: a cache that another caller cleared ends the call
CanRetryCleared(c) == call[c].tries = 1 /\ cache # Unset

\* refreshClientAfterInvalidTenantToken: another caller may have cleared the cache
\* already; the client is rebuilt in any case, and the call goes on
CanRetry(c) == call[c].tries = 1

\* withFeishuTenantTokenRefreshRetry
Refused(c) ==
  /\ call[c].at = "sent" /\ call[c].tok # token
  /\ \/ CanRetry(c) /\ cache' = Unset /\ Set(c, "ready")
     \/ ~CanRetry(c) /\ End(c, "invalid") /\ UNCHANGED cache
  /\ UNCHANGED <<now, token, next, pacer, lastSweep, reactions, placed, timeouts>>

Answered(c) == call[c].at = "sent" /\ call[c].tok = token

Answer(c) ==
  /\ Answered(c) /\ Kind[c] \in {"create", "patch", "reply"}
  /\ End(c, "ok")
  /\ UNCHANGED <<now, token, cache, next, pacer, lastSweep, reactions, placed, timeouts>>
-----------------------------------------------------------------------------
(* Reactions of one emoji.                                                 *)
AddReaction(c) ==
  /\ call[c].at = "idle" /\ Kind[c] = "react"
  /\ IF reactions[Target[c]] # Unset THEN End(c, "ok")
       ELSE call' = [call EXCEPT ![c].at = "ready", ![c].since = token]
  /\ UNCHANGED <<now, token, cache, next, pacer, lastSweep, reactions, placed, timeouts>>

\* the server places one more, identified by the call; a lost answer leaves it
\* there with no record of it
Placed(c) ==
  /\ Answered(c) /\ Kind[c] = "react"
  /\ placed' = [placed EXCEPT ![Target[c]] = @ \cup {c}]
  /\ \/ Set(c, "store") /\ UNCHANGED timeouts
     \/ /\ timeouts < MaxTimeouts /\ timeouts' = timeouts + 1
        /\ End(c, "timeout")
  /\ UNCHANGED <<now, token, cache, next, pacer, lastSweep, reactions>>

Stored(c) ==
  /\ call[c].at = "store" /\ Kind[c] = "react"
  /\ reactions' = [reactions EXCEPT ![Target[c]] = c]
  /\ End(c, "ok")
  /\ UNCHANGED <<now, token, cache, next, pacer, lastSweep, placed, timeouts>>

RemoveReaction(c) ==
  LET id == reactions[Target[c]] IN
  /\ call[c].at = "idle" /\ Kind[c] = "unreact"
  /\ IF id = Unset THEN End(c, "ok")
       ELSE call' = [call EXCEPT ![c].at = "ready", ![c].since = token, ![c].id = id]
  /\ UNCHANGED <<now, token, cache, next, pacer, lastSweep, reactions, placed, timeouts>>

Removed(c) ==
  /\ Answered(c) /\ Kind[c] = "unreact"
  /\ placed' = [placed EXCEPT ![Target[c]] = @ \ {call[c].id}]
  /\ Set(c, "store")
  /\ UNCHANGED <<now, token, cache, next, pacer, lastSweep, reactions, timeouts>>

Forgotten(c) ==
  /\ call[c].at = "store" /\ Kind[c] = "unreact"
  /\ reactions' = [reactions EXCEPT ![Target[c]] = Unset]
  /\ End(c, "ok")
  /\ UNCHANGED <<now, token, cache, next, pacer, lastSweep, placed, timeouts>>
-----------------------------------------------------------------------------
Tick ==
  /\ now < MaxTime /\ now' = now + 1
  /\ UNCHANGED <<token, cache, call, next, pacer, lastSweep, reactions, placed, timeouts>>

\* the server stops accepting the token before it expires
Rotate ==
  /\ token <= MaxRotations /\ token' = token + 1
  /\ UNCHANGED <<now, cache, call, next, pacer, lastSweep, reactions, placed, timeouts>>

ApiNext ==
  \/ Tick \/ Rotate
  \/ \E c \in Calls :
       \/ CreateMessage(c) \/ PatchMessage(c) \/ ReplyMessage(c)
       \/ SlotReached(c) \/ GiveUp(c) \/ Send(c) \/ Refused(c) \/ Answer(c)
       \/ AddReaction(c) \/ Placed(c) \/ Stored(c)
       \/ RemoveReaction(c) \/ Removed(c) \/ Forgotten(c)

ApiSpec == ApiInit /\ [][ApiNext]_apiVars
-----------------------------------------------------------------------------
Pacer(c) == IF Kind[c] = "create" THEN Unset ELSE Target[c]

\* Two patches of one message, and two created messages, are given times at least
\* Interval apart, whoever gives up waiting and whatever the sweep forgets
\* (requestPacer.reserve, keyedRequestPacer.sweep).
SlotsApart ==
  \A c, d \in Calls :
    (c # d /\ call[c].slot # -1 /\ call[d].slot # -1 /\ Pacer(c) = Pacer(d)) =>
      call[c].slot - call[d].slot >= Interval \/ call[d].slot - call[c].slot >= Interval

\* A call fails for its token only when the server changed it during the call:
\* a token that was refused to one goroutine is not handed to another one's
\* second try, and a cache that another one cleared stops nobody
\* (withFeishuTenantTokenRefreshRetry).
RefusedOnlyIfChanged == \A c \in Calls : call[c].end = "invalid" => call[c].since # token
=============================================================================
