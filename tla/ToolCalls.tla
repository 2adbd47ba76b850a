------------------------------- MODULE ToolCalls -------------------------------
(***************************************************************************)
(* Calls of the MCP tool server (adapter/feishu/mcpbridge): a backend      *)
(* sends a file by calling a tool, and the server has to find out from     *)
(* which conversation the call comes.                                      *)
(***************************************************************************)
EXTENDS Integers, FiniteSets

CONSTANTS
  Callers,   \* turns of the backends
  SessionOf, \* the session of each
  Keyed,     \* turns of a backend that puts its session's key in a call
  Args,      \* tools with their arguments
  MaxCalls   \* bound: calls

\* The key of a session is not empty, and Codex and Claude have finitely many
\* turns.
ASSUME ToolAssumption ==
  /\ IsFiniteSet(Callers) /\ Keyed \subseteq Callers
  /\ \A t \in Callers : SessionOf[t] \notin {"none", "refused"}
  /\ MaxCalls \in Nat

VARIABLES
  turn,     \* per turn: "none", "unbound", "running", "failed" or "over"
  items,    \* the tracker's started items, as <<turn, arguments>>
  unseen,   \* item/started events not handled yet
  calls,    \* calls of the tools on their way
  made,     \* how many there were
  sent      \* calls answered: [turn, found, to]

toolVars == <<turn, items, unseen, calls, made, sent>>

Rejected == "refused"

\* FindSubmissionByTurn: from the binding of the turn to its end, whatever the
\* status of the submission.
Found(t) == turn[t] \in {"running", "failed"}

\* resolveToolContextFromSessionSnapshot: the session's only running
\* submission.
FromSession(s) == {t \in Callers : SessionOf[t] = s /\ turn[t] = "running"}
Single(S) == IF Cardinality(S) = 1 THEN SessionOf[CHOOSE t \in S : TRUE] ELSE Rejected

\* resolveOnlyActiveToolContext: the only session that has one.
OnlyActive ==
  LET answers == {Single(FromSession(SessionOf[t])) : t \in Callers} \ {Rejected}
  IN  IF Cardinality(answers) = 1 THEN CHOOSE s \in answers : TRUE ELSE Rejected

\* matchesCodexMCPToolCall, matchesClaudeMCPToolCall: the started items with the
\* same tool and the same arguments.
SameCall(c) == {i \in items : i[2] = c.args}

\* PrepareClaudeConfig: the address Claude calls has the key of its session.
KeyOf(t) == IF t \in Keyed THEN SessionOf[t] ELSE "none"

\* resolveToolContext: an item that was started with the same tool and the
\* same arguments; two of them are none.  Without an item, the session named
\* in the call, or the only active one.
\* Mutant: the first item that fits is taken.
ResolveFirst(c) ==
  LET fits == {i \in items : i[2] = c.args /\ Found(i[1])
                 /\ (c.key # "none" => SessionOf[i[1]] = c.key)
                 /\ (i[1] \in Keyed => c.key # "none")}
  IN  IF fits # {} THEN SessionOf[(CHOOSE i \in fits : TRUE)[1]] ELSE Rejected
Resolve(c) ==
  LET keyless == \E i \in SameCall(c) : i[1] \in Keyed /\ c.key = "none"
      fits == {i \in SameCall(c) : /\ Found(i[1])
                                   /\ c.key # "none" => SessionOf[i[1]] = c.key
                                   /\ i[1] \in Keyed => c.key # "none"}
  IN  IF Cardinality(fits) > 1 THEN Rejected
      ELSE IF fits # {} THEN SessionOf[(CHOOSE i \in fits : TRUE)[1]]
      ELSE IF keyless THEN Rejected
      ELSE IF c.key # "none" THEN Single(FromSession(c.key))
      ELSE OnlyActive

ToolInit ==
  /\ turn = [t \in Callers |-> "none"]
  /\ items = {} /\ unseen = {} /\ calls = {} /\ made = 0 /\ sent = {}

\* The backend works on a turn; its submission is bound to it later.
TurnBegins(t) ==
  /\ turn[t] = "none"
  /\ \A u \in Callers : SessionOf[u] = SessionOf[t] => turn[u] \in {"none", "over"}
  /\ turn' = [turn EXCEPT ![t] = "unbound"]
  /\ UNCHANGED <<items, unseen, calls, made, sent>>
TurnBound(t) ==
  /\ turn[t] = "unbound" /\ turn' = [turn EXCEPT ![t] = "running"]
  /\ UNCHANGED <<items, unseen, calls, made, sent>>

\* RecordTurnFailure: the turn is not over yet.
TurnFails(t) ==
  /\ turn[t] = "running" /\ turn' = [turn EXCEPT ![t] = "failed"]
  /\ UNCHANGED <<items, unseen, calls, made, sent>>

\* Its end is handled after its items: ClearTurn.
TurnOver(t) ==
  /\ turn[t] \in {"running", "failed"} /\ \A i \in unseen : i[1] # t
  /\ turn' = [turn EXCEPT ![t] = "over"]
  /\ items' = {i \in items : i[1] # t}
  /\ calls' = {c \in calls : c.turn # t}
  /\ UNCHANGED <<unseen, made, sent>>

\* The backend calls a tool, and says so in an item; Claude waits for one
\* call before it makes the next.
CallTool(t, a) ==
  /\ turn[t] \in {"unbound", "running", "failed"} /\ made < MaxCalls
  /\ \A c \in calls : c.turn # t
  /\ <<t, a>> \notin items \cup unseen
  /\ made' = made + 1
  /\ calls' = calls \cup {[turn |-> t, args |-> a, key |-> KeyOf(t)]}
  /\ unseen' = unseen \cup {<<t, a>>}
  /\ UNCHANGED <<turn, items, sent>>

\* Tracker.Start.
ItemSeen(i) ==
  /\ i \in unseen /\ unseen' = unseen \ {i} /\ items' = items \cup {i}
  /\ UNCHANGED <<turn, calls, made, sent>>

\* handleToolsCall, once the file is found fit: the reply goes to the message
\* that started the submission.
HandleToolsCall(c) ==
  /\ c \in calls /\ calls' = calls \ {c}
  /\ sent' = sent \cup {[turn |-> c.turn, to |-> Resolve(c),
       found |-> Found(c.turn) /\ <<c.turn, c.args>> \in items]}
  /\ UNCHANGED <<turn, items, unseen, made>>

\* The item of an answered call completes: Tracker.Complete.
ItemDone(i) ==
  /\ i \in items /\ \A c \in calls : c.turn # i[1]
  /\ items' = items \ {i}
  /\ UNCHANGED <<turn, unseen, calls, made, sent>>

ToolNext ==
  \/ \E t \in Callers : TurnBegins(t) \/ TurnBound(t) \/ TurnFails(t) \/ TurnOver(t)
  \/ \E t \in Callers, a \in Args : CallTool(t, a)
  \/ \E i \in unseen : ItemSeen(i)
  \/ \E i \in items : ItemDone(i)
  \/ \E c \in calls : HandleToolsCall(c)

ToolSpec == ToolInit /\ [][ToolNext]_toolVars

-----------------------------------------------------------------------------
\* Every field of the state has its type: a call carries the key of its
\* session if its backend puts it there.
ToolTypeOK ==
  /\ turn \in [Callers -> {"none", "unbound", "running", "failed", "over"}]
  /\ items \subseteq Callers \X Args /\ unseen \subseteq Callers \X Args
  /\ \A c \in calls : c.turn \in Callers /\ c.args \in Args /\ c.key = KeyOf(c.turn)
  /\ made \in 0 .. MaxCalls

\* A file a tool call sends goes to the conversation whose turn made the call,
\* or nowhere: always when the call names its session, and otherwise once the
\* turn's item and submission are known, however many sessions make the same
\* c.  ("Send a local file to the Feishu conversation that started the
\* current turn", mcpbridge/service.go:540.)
CallGoesHome ==
  \A s \in sent :
    s.turn \in Keyed \/ s.found => s.to \in {SessionOf[s.turn], Rejected}
=============================================================================
