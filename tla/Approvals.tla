------------------------------ MODULE Approvals ------------------------------
(***************************************************************************)
(* What an approval card shows and what its buttons answer.  The App       *)
(* Server asks about an item it has announced: the tracker of started      *)
(* items (adapter/feishu/turnitem) supplies what the request itself leaves *)
(* out, the card is rendered from the two (adapter/feishu/approval), and a *)
(* press becomes a reply (serverrequest, approvalview, interactionreply).  *)
(* The Claude CLI asks about a tool call and may suggest changes of its    *)
(* permissions (runtime/claude, claudesupport).                            *)
(*                                                                         *)
(* One turn; the events of a backend are handled one after the other.  How *)
(* a card is delivered and closed is the subject of Interactions and       *)
(* ClaudeInteractions.  Names are numbers, in the order they sort.  Inputs *)
(* are those of the two protocols: a change has a path, an item has no     *)
(* permissions.                                                            *)
(***************************************************************************)
EXTENDS Integers, FiniteSets, Sequences, SequencesExt

CONSTANTS
  Requests,      \* identities of requests
  Items,         \* items of the turn
  ItemContents,  \* what item/started says of an item
  AskContents,   \* what the App Server adds in its request, by kind
  ToolContents,  \* what the Claude CLI asks for, with its kind
  Suggestions,   \* its suggested permission updates
  MaxPresses,    \* bound: presses of buttons
  MaxEntries,    \* files listed (8 in the code)
  MaxPaths,      \* paths of one permission listed (6)
  MaxFlat,       \* fields listed when nothing else is known (8)
  MaxLines       \* lines after which a tool's other fields are left out (7)

VARIABLES
  began,    \* the server's items that have started and not ended, with their contents
  items,    \* Tracker.items
  over,     \* the turn has ended
  stored,   \* the stored PendingRequest with its payload, or NoRequest
  card,     \* the card: its body, buttons and conclusion
  answers,  \* replies the backend got, in order
  toasts,   \* presses that reached no handler
  presses

vars == <<began, items, over, stored, card, answers, toasts, presses>>

\* A content: every field may be absent.  permissions and input are sets of
\* facts <<class, n>>.
Fields == {"command", "changes", "root", "permissions", "tool", "input"}
Empty == [command |-> 0, changes |-> <<>>, root |-> 0, permissions |-> {}, tool |-> 0,
          input |-> {}]

\* What is asked is finite, and the Claude CLI sends no permission profile.
Proper(content) ==
  /\ Len(content.changes) \in Nat
  /\ IsFiniteSet(content.permissions) /\ \A f \in content.permissions : f[2] \in Nat
Bounded ==
  /\ MaxEntries \in Nat /\ MaxPaths \in Nat
  /\ \A c \in ItemContents : Proper(c)
  /\ \A a \in AskContents : Proper(a.content)
  /\ \A a \in ToolContents : Proper(a.content) /\ a.content.permissions = {}

NoRequest == [kind |-> "none", backend |-> "none", request |-> Empty, permissions |-> {},
              updates |-> {}, wants |-> Empty]
NoBody == [command |-> 0, files |-> <<>>, more |-> 0, root |-> 0, facts |-> {},
           totals |-> {}, tool |-> 0]
NoCard == [body |-> NoBody, buttons |-> {}, text |-> "none"]

-----------------------------------------------------------------------------
\* The tracker.

\* MergeJSONMaps: the overlay wins, field by field.
Merge(base, overlay) ==
  [x \in Fields |-> IF overlay[x] = Empty[x] THEN base[x] ELSE overlay[x]]

\* Mutant of Snapshot: items are forgotten once they are asked about.
SnapshotEmpty(i) == IF \E r \in Requests : stored[r].kind = "file" THEN Empty ELSE items[i]
\* Tracker.Snapshot: what is known of an item.
Snapshot(i) == items[i]

-----------------------------------------------------------------------------
\* Rendering.

\* ParseFileEntryWithWorkspace.
Entry(change) ==
  IF change.old # 0 /\ change.new # 0 /\ change.old # change.new
    THEN <<change.old, change.new>>
    ELSE <<change.path>>

\* CollectFileEntriesWithWorkspace: every entry once, in order.
Entries(request) ==
  LET changes == request.changes
      listed[n \in 0 .. Len(changes)] ==
        IF n = 0 THEN <<>>
        ELSE IF Entry(changes[n]) \in ToSet(listed[n - 1]) THEN listed[n - 1]
        ELSE Append(listed[n - 1], Entry(changes[n]))
  IN  listed[Len(changes)]

\* RenderFileBodyWithWorkspace: the first entries, and how many are left.
\* Mutant: the count of what is left out is forgotten when one is left.
RenderFileBodyCut(request) ==
  LET all == Entries(request)
      n == IF Len(all) > MaxEntries THEN MaxEntries ELSE Len(all)
  IN  [NoBody EXCEPT !.files = SubSeq(all, 1, n), !.more = 0, !.root = request.root]
RenderFileBody(request) ==
  LET all == Entries(request)
      n == IF Len(all) > MaxEntries THEN MaxEntries ELSE Len(all)
  IN  [NoBody EXCEPT !.files = SubSeq(all, 1, n), !.more = Len(all) - n,
                     !.root = request.root]

\* RenderCommandBody: the whole command.
RenderCommandBody(request) == [NoBody EXCEPT !.command = request.command]

Of(class, facts) == {f \in facts : f[1] = class}
First(n, facts) == {f \in facts : Cardinality({g \in facts : g[2] < f[2]}) < n}

\* FormatPermissionPathList: the first paths, and the number of all if some
\* are left out.
Listed(class, facts) ==
  LET paths == Of(class, facts)
  IN  [facts |-> First(MaxPaths, paths),
       totals |-> IF Cardinality(paths) > MaxPaths THEN {<<class, Cardinality(paths)>>} ELSE {}]

\* SummarizePermissionFileSystem: the profile's lists, or those of the older
\* form where it has none.
FileSystem(facts) ==
  LET of(c) == Listed(c, facts)
      profile == {"read", "write"}
  IN  IF \E f \in facts : f[1] \in profile
        THEN [facts |-> of("read").facts \cup of("write").facts,
              totals |-> of("read").totals \cup of("write").totals]
        ELSE of("paths")

\* PermissionSummarySections: the named parts, or else the first fields.
PermissionSummary(facts) ==
  LET named == Of("mode", facts) \cup FileSystem(facts).facts \cup Of("network", facts)
  IN  [facts |-> IF named # {} THEN named ELSE First(MaxFlat, Of("other", facts)),
       totals |-> FileSystem(facts).totals]

\* SummarizePermissionRequest: the fields it names are always shown, the other
\* ones up to a number of lines.
ToolSummary(request) ==
  LET named == Of("named", request.input)
      room == MaxLines - Cardinality(named) - (IF request.tool = 0 THEN 0 ELSE 1)
      \* One more is added before the lines are counted.
      rest == First(IF room > 1 THEN room ELSE 1, Of("field", request.input))
  IN  named \cup rest \cup Of("blocked", request.input)

\* RenderPermissionsApprovalBody.
RenderPermissionsBody(request, permissions) ==
  [NoBody EXCEPT !.tool = request.tool,
                 !.facts = PermissionSummary(permissions).facts \cup ToolSummary(request),
                 !.totals = PermissionSummary(permissions).totals]

\* PresentationForEvent, RenderApprovalPresentation: the body by kind.
Body(kind, request, permissions) ==
  CASE kind = "command" -> RenderCommandBody(request)
    [] kind = "file" -> RenderFileBody(request)
    [] OTHER -> RenderPermissionsBody(request, permissions)

\* Buttons, ClaudeApprovalButtons: their actions.  A Claude card offers the
\* session only when a suggestion can be applied.
CodexButtons(kind) ==
  IF kind = "permissions" THEN {"accept_turn", "accept_session", "decline"}
    ELSE {"accept", "accept_session", "decline", "cancel"}
\* Mutant: the session button is always there.
ClaudeButtonsAlways(kind, updates) == CodexButtons(kind)
ClaudeButtons(kind, updates) ==
  IF updates = {} THEN CodexButtons(kind) \ {"accept_session"} ELSE CodexButtons(kind)

\* What a button's text promises.
Promise(action) ==
  CASE action \in {"accept", "accept_turn"} -> "once"
    [] action = "accept_session" -> "session"
    [] action = "cancel" -> "stop"
    [] OTHER -> "no"

\* NormalizeSessionPermissionUpdate, SafeClaudeSessionPermissionUpdates: only
\* updates of the session, and only to modes the user can choose.
Safe(suggestions) ==
  {u \in suggestions :
     /\ u.destination = "session"
     /\ \/ u.type = "setMode" /\ u.mode \in {"default", "acceptEdits", "bypassPermissions"}
        \/ u.type = "addRules" /\ u.rules # {}}

-----------------------------------------------------------------------------
Init ==
  /\ began = [i \in Items |-> Empty] /\ items = [i \in Items |-> Empty]
  /\ over = FALSE
  /\ stored = [r \in Requests |-> NoRequest]
  /\ card = [r \in Requests |-> NoCard]
  /\ answers = [r \in Requests |-> <<>>]
  /\ toasts = {} /\ presses = 0

\* item/started: the tracker remembers what the item says.
ItemStarted(i, content) ==
  /\ ~over /\ began[i] = Empty
  /\ began' = [began EXCEPT ![i] = content]
  /\ items' = [items EXCEPT ![i] = content]
  /\ UNCHANGED <<over, stored, card, answers, toasts, presses>>

\* item/completed: Tracker.Complete consumes it.
ItemCompleted(i) ==
  /\ ~over /\ began[i] # Empty
  /\ began' = [began EXCEPT ![i] = Empty]
  /\ items' = [items EXCEPT ![i] = Empty]
  /\ UNCHANGED <<over, stored, card, answers, toasts, presses>>

\* The turn ends: ClearTurn, and its stored requests are deleted.
TurnEnds ==
  /\ ~over /\ over' = TRUE
  /\ began' = [i \in Items |-> Empty] /\ items' = [i \in Items |-> Empty]
  /\ stored' = [r \in Requests |->
       IF stored[r].backend = "codex" THEN NoRequest ELSE stored[r]]
  /\ UNCHANGED <<card, answers, toasts, presses>>

\* SendApprovalCardPresentation, of a request of the App Server: the item's
\* context is merged in, and what was asked is stored with the card.
ApprovalRequested(r, kind, i, content) ==
  LET request == Merge(Snapshot(i), content)
  IN  /\ ~over /\ card[r] = NoCard /\ began[i] # Empty
      /\ stored' = [stored EXCEPT ![r] =
           [kind |-> kind, backend |-> "codex", request |-> request,
            permissions |-> IF kind = "permissions" THEN request.permissions ELSE {},
            updates |-> {}, wants |-> Merge(began[i], content)]]
      /\ card' = [card EXCEPT ![r] =
           [body |-> Body(kind, request, request.permissions),
            buttons |-> CodexButtons(kind), text |-> "open"]]
      /\ UNCHANGED <<began, items, over, answers, toasts, presses>>

\* handlePermission of the Claude runtime: the request is all there is, and
\* the suggestions that can be applied become the session button.
ClaudeAsks(r, kind, content, suggestions) ==
  LET updates == Safe(suggestions)
  IN  /\ ~over /\ card[r] = NoCard
      /\ stored' = [stored EXCEPT ![r] =
           [kind |-> kind, backend |-> "claude", request |-> content, permissions |-> {},
            updates |-> updates, wants |-> content]]
      /\ card' = [card EXCEPT ![r] =
           [body |-> Body(kind, content, {}), buttons |-> ClaudeButtons(kind, updates),
            text |-> "open"]]
      /\ UNCHANGED <<began, items, over, answers, toasts, presses>>

-----------------------------------------------------------------------------
\* A press.

\* serverRequestCardActionHandlers: the actions that have a handler.
Registered(kind) ==
  IF kind = "permissions" THEN {"accept_turn", "accept_session"}
    ELSE {"accept", "accept_session", "decline", "cancel"}

\* CommandApprovalReplyPayload and the other cases of CompleteApprovalAction:
\* what the App Server is told.
\* Mutant: the scope of a permission is the session's by default.
CodexReplyWide(request, action) ==
  IF request.kind = "permissions"
    THEN [effect |-> "session", granted |-> request.permissions, updates |-> {}]
    ELSE [effect |-> Promise(action), granted |-> {}, updates |-> {}]
CodexReply(request, action) ==
  IF request.kind = "permissions"
    THEN [effect |-> IF action = "accept_session" THEN "session" ELSE "once",
          granted |-> request.permissions, updates |-> {}]
    ELSE [effect |-> CASE action = "accept" -> "once"
                       [] action = "accept_session" -> "session"
                       [] action = "cancel" -> "stop"
                       [] OTHER -> "no",
          granted |-> {}, updates |-> {}]

\* ClaudeApprovalResolutionForAction and ResolveApproval: an allowance for the
\* session without an update to apply is one for this call.
ClaudeReply(request, action) ==
  CASE action \in {"accept", "accept_turn"} ->
         [effect |-> "once", granted |-> {}, updates |-> {}]
    [] action = "accept_session" ->
         [effect |-> IF request.updates = {} THEN "once" ELSE "session", granted |-> {},
          updates |-> request.updates]
    [] action = "cancel" -> [effect |-> "stop", granted |-> {}, updates |-> {}]
    [] OTHER -> [effect |-> "no", granted |-> {}, updates |-> {}]

\* AdapterForPending and ReplyApproval.
Reply(request, action) ==
  IF request.backend = "codex" THEN CodexReply(request, action)
    ELSE ClaudeReply(request, action)

\* ApprovalDecisionText: the conclusion the card shows.
DecisionText(action) ==
  CASE action \in {"accept", "accept_turn"} -> "once"
    [] action = "accept_session" -> "session"
    [] action = "cancel" -> "stop"
    [] OTHER -> "no"

\* cardaction Dispatch: a name without a handler is only told to the user.
PressUnknown(r, action) ==
  /\ action \in card[r].buttons \ Registered(stored[r].kind)
  /\ stored[r] # NoRequest
  /\ presses < MaxPresses /\ presses' = presses + 1
  /\ toasts' = toasts \cup {<<r, action>>}
  /\ UNCHANGED <<began, items, over, stored, card, answers>>

\* CompleteApprovalAction: the reply is sent and the card concluded.  Its
\* failure leaves both as they were.  A Claude request is taken by the first
\* answer; of the App Server's nothing tells a second press from the first.
Press(r, action) ==
  /\ action \in card[r].buttons \cap Registered(stored[r].kind)
  /\ stored[r] # NoRequest
  /\ stored[r].backend = "claude" => answers[r] = <<>>
  /\ presses < MaxPresses /\ presses' = presses + 1
  /\ answers' = [answers EXCEPT ![r] =
       Append(@, [action |-> action, reply |-> Reply(stored[r], action)])]
  /\ card' = [card EXCEPT ![r].text = DecisionText(action)]
  /\ UNCHANGED <<began, items, over, stored, toasts>>

Next ==
  \/ \E i \in Items, c \in ItemContents : ItemStarted(i, c)
  \/ \E i \in Items : ItemCompleted(i)
  \/ TurnEnds
  \/ \E r \in Requests, i \in Items, a \in AskContents :
       ApprovalRequested(r, a.kind, i, a.content)
  \/ \E r \in Requests, a \in ToolContents, s \in Suggestions :
       ClaudeAsks(r, a.kind, a.content, s)
  \/ \E r \in Requests : \E action \in card[r].buttons :
       PressUnknown(r, action) \/ Press(r, action)

Spec == Init /\ [][Next]_vars

-----------------------------------------------------------------------------
\* Every field of the state has its type.
TypeOK ==
  /\ over \in BOOLEAN /\ presses \in 0 .. MaxPresses
  /\ \A r \in Requests : card[r].text \in {"none", "open", "once", "session", "no", "stop"}

\* A fact is on the card, or the number of its class is.
Shown(fact, class, facts, body) ==
  fact \in body.facts \/ <<class, Cardinality(Of(class, facts))>> \in body.totals

\* What the backend wants to do is on the card: the command, every file or how
\* many more, the root, every path and network right of a permission profile,
\* the tool with the fields that name its target.
Informed(request, body) ==
  LET wants == request.wants
  IN  CASE request.kind = "command" -> body.command = wants.command
        [] request.kind = "file" ->
             /\ Len(body.files) + body.more = Len(Entries(wants))
             /\ ToSet(body.files) \subseteq ToSet(Entries(wants))
             /\ body.root = wants.root
        [] OTHER ->
             /\ body.tool = wants.tool
             /\ \A f \in wants.permissions : f[1] \in {"read", "write", "network"} =>
                  Shown(f, f[1], wants.permissions, body)
             /\ \A f \in wants.input : f[1] \in {"named", "blocked"} => f \in body.facts

\* Every answer a backend gets is the one the pressed button promised, the card
\* says so, and an allowance was given on a card that named what it allows:
\* what the App Server sends in two parts reaches the card as one, and neither
\* a list's limit nor the permissions' scope goes past what was shown.
AnswersAreInformed ==
  \A r \in Requests : \A n \in DOMAIN answers[r] :
    LET a == answers[r][n]
    IN  /\ a.reply.effect = Promise(a.action)
        /\ n = Len(answers[r]) => card[r].text = a.reply.effect
        /\ stored[r] # NoRequest /\ a.reply.effect \in {"once", "session"} =>
             /\ Informed(stored[r], card[r].body)
             /\ a.reply.granted \subseteq stored[r].wants.permissions
             /\ \A u \in a.reply.updates : u.destination = "session"

\* A button of a card answers the request: "a permission change pops up a card
\* first, one tap on the phone is enough" (README.md:11).
EveryButtonAnswers == toasts = {}
=============================================================================
