--------------------------- MODULE Approvals_proofs ---------------------------
(***************************************************************************)
(* Proof that an answer to an approval is informed: what a card shows is   *)
(* worked out from the entries of its change (listed once each, by         *)
(* induction on their number), its paths and its rights, and the invariant *)
(* keeps for every card what was tracked when it was sent.                 *)
(***************************************************************************)
EXTENDS Approvals, FiniteSetTheorems, SequenceTheorems, WellFoundedInduction, TLAPS

\* Every set of naturals that is not empty has a least element.
LEMMA Least ==
  ASSUME NEW T, T \subseteq Nat, T # {}
  PROVE  \E x \in T : \A y \in T : x <= y
  <1> DEFINE Less == OpToRel(<, Nat)
  <1>1. IsWellFoundedOn(Less, Nat)
    BY NatLessThanWellFounded
  <1>2. \E x \in T : \A y \in T : <<y, x>> \notin Less
    <2> HIDE DEF Less
    <2> QED
      BY <1>1, WFMin
  <1>3. \E x \in T : \A y \in T : ~ (y < x)
    BY <1>2 DEF OpToRel
  <1> QED
    BY <1>3

\* Induction: a set that holds 0 and the successors of its elements holds the numbers
\* up to N.
LEMMA Upwards ==
  ASSUME NEW N \in Nat, NEW P, 0 \in P, \A n \in 0 .. N : n \in P /\ n < N => n + 1 \in P
  PROVE  0 .. N \subseteq P
  <1> SUFFICES ASSUME (0 .. N) \ P # {} PROVE FALSE
    OBVIOUS
  <1>1. PICK x \in (0 .. N) \ P : \A y \in (0 .. N) \ P : x <= y
    <2>1. (0 .. N) \ P \subseteq Nat
      OBVIOUS
    <2> QED
      BY <2>1, Least
  <1>2. x # 0 /\ x - 1 \in 0 .. N /\ x - 1 < N
    BY <1>1
  <1>3. x - 1 \in P
    BY <1>1, <1>2
  <1> QED
    BY <1>1, <1>2, <1>3
-----------------------------------------------------------------------------
\* The files of a card.

\* One more change, listed once.
More(list, change) ==
  IF Entry(change) \in ToSet(list) THEN list ELSE Append(list, Entry(change))

LEMMA MoreListed ==
  ASSUME NEW E, NEW list \in Seq(E), NEW change, Entry(change) \in E
  PROVE  More(list, change) \in Seq(E)
  BY DEF More

\* The entries of a request are a sequence.
LEMMA EntriesListed ==
  ASSUME NEW request, Len(request.changes) \in Nat
  PROVE  Entries(request) \in Seq({Entry(request.changes[n]) : n \in 1 .. Len(request.changes)})
  <1> DEFINE changes == request.changes
             N == Len(changes)
             E == {Entry(changes[n]) : n \in 1 .. N}
             Good(k, f) == f = [n \in 0 .. k |->
                                  IF n = 0 THEN <<>> ELSE More(f[n - 1], changes[n])]
             P == {k \in 0 .. N : \E f : Good(k, f)}
             listed == CHOOSE f : Good(N, f)
  <1>0. Entries(request) = listed[N]
    BY DEF Entries, More
  <1> HIDE DEF N
  <1>1. 0 \in P
    <2>1. Good(0, [n \in 0 .. 0 |-> <<>>])
      OBVIOUS
    <2>2. 0 \in 0 .. N
      BY DEF N
    <2> HIDE DEF Good
    <2> QED
      BY <2>1, <2>2
  <1>2. ASSUME NEW k \in 0 .. N, k \in P, k < N PROVE k + 1 \in P
    <2>1. PICK f : Good(k, f)
      BY <1>2
    <2> DEFINE g == [n \in 0 .. k + 1 |->
                       IF n = k + 1 THEN More(f[k], changes[k + 1]) ELSE f[n]]
               h == [n \in 0 .. k + 1 |->
                       IF n = 0 THEN <<>> ELSE More(g[n - 1], changes[n])]
    <2>2. ASSUME NEW n \in 0 .. k + 1 PROVE g[n] = h[n]
      <3>1. CASE n = 0
        BY <2>1, <3>1
      <3>2. CASE n = k + 1
        <4>1. n - 1 = k /\ k \in 0 .. k + 1 /\ k # k + 1
          BY <3>2
        <4>2. g[k] = f[k]
          BY <4>1
        <4> QED
          BY <3>2, <4>1, <4>2
      <3>3. CASE n \in 1 .. k
        <4>1. n \in 0 .. k /\ n - 1 \in 0 .. k + 1 /\ n - 1 # k + 1 /\ n # 0 /\ n # k + 1
          BY <3>3
        <4>2. g[n - 1] = f[n - 1] /\ g[n] = f[n]
          BY <4>1
        <4>3. f[n] = More(f[n - 1], changes[n])
          BY <2>1, <4>1
        <4> QED
          BY <4>1, <4>2, <4>3
      <3> QED
        BY <3>1, <3>2, <3>3
    <2>3. g = h
      BY <2>2
    <2>4. Good(k + 1, g)
      BY <2>3
    <2>5. k + 1 \in 0 .. N
      BY <1>2 DEF N
    <2> HIDE DEF Good, g
    <2> QED
      BY <2>4, <2>5
  <1>3. N \in P
    <2>1. N \in Nat
      BY DEF N
    <2>2. 0 .. N \subseteq P
      <3> HIDE DEF P
      <3> QED
        BY <1>1, <1>2, <2>1, Upwards
    <2> HIDE DEF P
    <2> QED
      BY <2>1, <2>2
  <1>4. Good(N, listed)
    BY <1>3
  <1>5. listed[N] \in Seq(E)
    <2> DEFINE Q == {n \in 0 .. N : listed[n] \in Seq(E)}
    <2>0. N \in Nat
      BY DEF N
    <2>1. \A n \in 0 .. N : listed[n] = IF n = 0 THEN <<>> ELSE More(listed[n - 1], changes[n])
      BY <1>4
    <2> HIDE DEF listed, E
    <2>a. <<>> \in Seq(E)
      OBVIOUS
    <2>b. 0 \in 0 .. N
      BY <2>0
    <2>c. listed[0] = <<>>
      BY <2>1, <2>b
    <2>2. 0 \in Q
      BY <2>a, <2>b, <2>c
    <2>3. ASSUME NEW k \in 0 .. N, k \in Q, k < N PROVE k + 1 \in Q
      <3>1. k + 1 \in 1 .. N /\ (k + 1) - 1 = k
        BY <2>0, <2>3
      <3>2. listed[k + 1] = More(listed[k], changes[k + 1])
        BY <2>1, <3>1
      <3>3. Entry(changes[k + 1]) \in E
        BY <3>1 DEF E
      <3> QED
        BY <2>3, <3>1, <3>2, <3>3, MoreListed
    <2>4. 0 .. N \subseteq Q
      <3> HIDE DEF Q
      <3> QED
        BY <2>0, <2>2, <2>3, Upwards
    <2> QED
      BY <2>0, <2>4
  <1> QED
    BY <1>0, <1>5 DEF N

\* The first entries and the number of the others account for all.
LEMMA FilesShown ==
  ASSUME NEW request, Len(request.changes) \in Nat, MaxEntries \in Nat
  PROVE  LET body == RenderFileBody(request)
         IN  /\ Len(body.files) + body.more = Len(Entries(request))
             /\ ToSet(body.files) \subseteq ToSet(Entries(request))
             /\ body.root = request.root
  <1> DEFINE all == Entries(request)
             n == IF Len(all) > MaxEntries THEN MaxEntries ELSE Len(all)
             body == RenderFileBody(request)
  <1>1. PICK E : all \in Seq(E)
    BY EntriesListed
  <1>2. /\ body.files = SubSeq(all, 1, n) /\ body.more = Len(all) - n
        /\ body.root = request.root
    BY DEF RenderFileBody, NoBody
  <1> HIDE DEF all, body
  <1>3. n \in 0 .. Len(all) /\ Len(all) \in Nat
    BY <1>1
  <1> HIDE DEF n
  <1>4. /\ Len(SubSeq(all, 1, n)) = n
        /\ \A i \in 1 .. n : SubSeq(all, 1, n)[i] = all[i]
        /\ DOMAIN SubSeq(all, 1, n) = 1 .. n /\ DOMAIN all = 1 .. Len(all)
    BY <1>1, <1>3
  <1>5. ToSet(SubSeq(all, 1, n)) \subseteq ToSet(all)
    BY <1>3, <1>4 DEF ToSet
  <1> QED
    BY <1>2, <1>3, <1>4, <1>5 DEF all, body
-----------------------------------------------------------------------------
\* The permissions of a card.

\* No path is left out without its number.
LEMMA PathsListed ==
  ASSUME NEW facts, IsFiniteSet(facts), \A f \in facts : f[2] \in Nat, MaxPaths \in Nat,
         NEW class, NEW f \in Of(class, facts)
  PROVE  \/ f \in Listed(class, facts).facts
         \/ <<class, Cardinality(Of(class, facts))>> \in Listed(class, facts).totals
  <1> DEFINE paths == Of(class, facts)
             before == {g \in paths : g[2] < f[2]}
  <1>1. IsFiniteSet(paths) /\ f \in paths /\ f[2] \in Nat
    BY FS_Subset DEF Of
  <1> HIDE DEF paths
  <1>2. Cardinality(paths) \in Nat /\ IsFiniteSet(paths \ {f})
        /\ Cardinality(paths \ {f}) = Cardinality(paths) - 1
    BY <1>1, FS_CardinalityType, FS_RemoveElement
  <1>3. before \subseteq paths \ {f}
    BY <1>1
  <1>4. Cardinality(before) <= Cardinality(paths \ {f}) /\ Cardinality(before) \in Nat
    BY <1>2, <1>3, FS_Subset, FS_CardinalityType
  <1>5. CASE Cardinality(paths) > MaxPaths
    BY <1>5 DEF Listed, paths
  <1>6. CASE ~(Cardinality(paths) > MaxPaths)
    <2>1. Cardinality(before) < MaxPaths
      BY <1>2, <1>4, <1>6
    <2>2. f \in First(MaxPaths, paths)
      BY <1>1, <2>1 DEF First
    <2> QED
      BY <2>2 DEF Listed, paths
  <1> QED
    BY <1>5, <1>6

\* Every path and network right of a profile is on its card.
LEMMA RightsShown ==
  ASSUME NEW facts, IsFiniteSet(facts), \A f \in facts : f[2] \in Nat, MaxPaths \in Nat,
         NEW request, NEW f \in facts, f[1] \in {"read", "write", "network"}
  PROVE  Shown(f, f[1], facts, RenderPermissionsBody(request, facts))
  <1> DEFINE summary == PermissionSummary(facts)
             files == FileSystem(facts)
             body == RenderPermissionsBody(request, facts)
  <1>1. body.totals = summary.totals /\ summary.facts \subseteq body.facts
    BY DEF RenderPermissionsBody, NoBody
  <1>2. summary.totals = files.totals
        /\ summary.facts = LET named == Of("mode", facts) \cup files.facts \cup Of("network", facts)
                           IN  IF named # {} THEN named ELSE First(MaxFlat, Of("other", facts))
    BY DEF PermissionSummary
  <1>3. CASE f[1] = "network"
    <2>1. f \in Of("network", facts)
      BY <1>3 DEF Of
    <2>2. f \in summary.facts
      BY <1>2, <2>1
    <2> QED
      BY <1>1, <2>2 DEF Shown
  <1>4. CASE f[1] \in {"read", "write"}
    <2>1. f \in Of(f[1], facts)
      BY DEF Of
    <2>2. files.facts = Listed("read", facts).facts \cup Listed("write", facts).facts
          /\ files.totals = Listed("read", facts).totals \cup Listed("write", facts).totals
      BY <1>4 DEF FileSystem
    <2>3. \/ f \in Listed(f[1], facts).facts
          \/ <<f[1], Cardinality(Of(f[1], facts))>> \in Listed(f[1], facts).totals
      BY <2>1, PathsListed
    <2> HIDE DEF summary, files, body
    <2>4. CASE f \in Listed(f[1], facts).facts
      <3>1. f \in files.facts
        BY <1>4, <2>2, <2>4
      <3>2. f \in summary.facts
        BY <1>2, <3>1
      <3> QED
        BY <1>1, <3>2 DEF Shown, body
    <2>5. CASE <<f[1], Cardinality(Of(f[1], facts))>> \in Listed(f[1], facts).totals
      <3>1. <<f[1], Cardinality(Of(f[1], facts))>> \in body.totals
        BY <1>1, <1>2, <1>4, <2>2, <2>5
      <3> QED
        BY <3>1 DEF Shown, body
    <2> QED
      BY <2>3, <2>4, <2>5
  <1> QED
    BY <1>3, <1>4

\* A card that was rendered from what the backend wants names all of it.
LEMMA CardInforms ==
  ASSUME NEW kind, NEW wants, NEW facts, NEW request, request.kind = kind,
         request.wants = wants, Proper(wants), MaxEntries \in Nat, MaxPaths \in Nat,
         facts = wants.permissions
  PROVE  Informed(request, Body(kind, wants, facts))
  <1>1. CASE kind = "command"
    BY <1>1 DEF Informed, Body, RenderCommandBody, NoBody
  <1>2. CASE kind = "file"
    <2>1. Len(wants.changes) \in Nat
      BY DEF Proper
    <2> QED
      BY <1>2, <2>1, FilesShown DEF Informed, Body
  <1>3. CASE kind \notin {"command", "file"}
    <2> DEFINE body == RenderPermissionsBody(wants, facts)
    <2>1. body.tool = wants.tool /\ ToolSummary(wants) \subseteq body.facts
      BY DEF RenderPermissionsBody, NoBody
    <2>2. \A f \in wants.input : f[1] \in {"named", "blocked"} => f \in ToolSummary(wants)
      BY DEF ToolSummary, Of
    <2>3. \A f \in facts : f[1] \in {"read", "write", "network"} => Shown(f, f[1], facts, body)
      BY RightsShown DEF Proper
    <2> HIDE DEF body
    <2>4. Body(kind, wants, facts) = body
      BY <1>3 DEF Body, body
    <2> QED
      BY <1>3, <2>1, <2>2, <2>3, <2>4 DEF Informed
  <1> QED
    BY <1>1, <1>2, <1>3
-----------------------------------------------------------------------------
(* The inductive invariant.                                                *)

\* What the tracker knows of the items is what the server has said of them.
Tracked ==
  /\ items = began /\ began \in [Items -> {began[i] : i \in Items}]
  /\ \A i \in Items : Proper(began[i])

\* A request that is stored has a card which names all it wants, grants and
\* changes no more than that, and offers what its answers can keep.
Asked(r) ==
  stored[r] # NoRequest =>
    /\ Informed(stored[r], card[r].body)
    /\ stored[r].permissions \subseteq stored[r].wants.permissions
    /\ \A u \in stored[r].updates : u.destination = "session"
    /\ stored[r].backend # "codex" /\ stored[r].updates = {} => "accept_session" \notin card[r].buttons

\* What an answer says, and how far it goes.
Answered(r, a) ==
  /\ a.reply.effect = Promise(a.action)
  /\ stored[r] # NoRequest => /\ a.reply.granted \subseteq stored[r].wants.permissions
                              /\ \A u \in a.reply.updates : u.destination = "session"

IsSequence(z) == z \in Seq({z[n] : n \in 1 .. Len(z)})

ApprovalInv ==
  /\ Tracked
  /\ DOMAIN stored = Requests /\ DOMAIN card = Requests /\ DOMAIN answers = Requests
  /\ \A r \in Requests :
       /\ DOMAIN card[r] = {"body", "buttons", "text"}
       /\ card[r] = NoCard => stored[r] = NoRequest /\ answers[r] = <<>>
       /\ Asked(r)
       /\ IsSequence(answers[r])
       /\ \A n \in 1 .. Len(answers[r]) :
            /\ Answered(r, answers[r][n])
            /\ n = Len(answers[r]) => card[r].text = answers[r][n].reply.effect

\* The invariant is what the property asks for.
LEMMA InvInforms == ApprovalInv => AnswersAreInformed
  <1> SUFFICES ASSUME ApprovalInv, NEW r \in Requests, NEW n \in DOMAIN answers[r]
               PROVE  LET a == answers[r][n]
                      IN  /\ a.reply.effect = Promise(a.action)
                          /\ n = Len(answers[r]) => card[r].text = a.reply.effect
                          /\ stored[r] # NoRequest /\ a.reply.effect \in {"once", "session"} =>
                               /\ Informed(stored[r], card[r].body)
                               /\ a.reply.granted \subseteq stored[r].wants.permissions
                               /\ \A u \in a.reply.updates : u.destination = "session"
    BY DEF AnswersAreInformed
  <1>1. n \in 1 .. Len(answers[r])
    BY DEF ApprovalInv, IsSequence
  <1> QED
    BY <1>1 DEF ApprovalInv, Asked, Answered

\* Merged contents are proper.
LEMMA MergeProper ==
  ASSUME NEW a, NEW b, Proper(a), Proper(b)
  PROVE  Proper(Merge(a, b))
  <1>1. /\ Merge(a, b).changes \in {a.changes, b.changes}
        /\ Merge(a, b).permissions \in {a.permissions, b.permissions}
    BY DEF Merge, Fields
  <1> QED
    BY <1>1 DEF Proper

LEMMA EmptyProper == Proper(Empty)
  <1>1. Len(<<>>) = 0
    OBVIOUS
  <1> QED
    BY <1>1, FS_EmptySet DEF Proper, Empty

\* A new request, of either backend, keeps what is known of all.
LEMMA AskKept ==
  ASSUME ApprovalInv, NEW r \in Requests, NEW new, NEW body, NEW buttons,
         card[r] = NoCard, new.backend # "none",
         stored' = [stored EXCEPT ![r] = new],
         card' = [card EXCEPT ![r] = [body |-> body, buttons |-> buttons, text |-> "open"]],
         Informed(new, body), new.permissions \subseteq new.wants.permissions,
         \A u \in new.updates : u.destination = "session",
         new.backend # "codex" /\ new.updates = {} => "accept_session" \notin buttons,
         UNCHANGED <<began, items, answers>>
  PROVE  ApprovalInv'
  <1> USE DEF ApprovalInv
  <1>1. Tracked' /\ DOMAIN stored' = Requests /\ DOMAIN card' = Requests
        /\ DOMAIN answers' = Requests
    BY DEF Tracked
  <1>2. /\ stored'[r] = new /\ answers'[r] = <<>> /\ answers[r] = <<>>
        /\ card'[r].body = body /\ card'[r].buttons = buttons /\ card'[r].text = "open"
        /\ DOMAIN card'[r] = {"body", "buttons", "text"}
    OBVIOUS
  <1>3. card'[r] # NoCard
    BY <1>2 DEF NoCard
  <1>4. ASSUME NEW q \in Requests \ {r}
        PROVE  stored'[q] = stored[q] /\ card'[q] = card[q] /\ answers'[q] = answers[q]
    OBVIOUS
  <1>5. Asked(r)'
    BY <1>2 DEF Asked
  <1>6. Len(answers'[r]) = 0 /\ IsSequence(answers'[r])
    BY <1>2 DEF IsSequence
  <1> QED
    BY <1>1, <1>2, <1>3, <1>4, <1>5, <1>6 DEF Asked, Answered

\* An answer is what its button has promised.
LEMMA ReplyKeepsPromise ==
  ASSUME ApprovalInv, NEW r \in Requests, NEW action, stored[r] # NoRequest,
         action \in card[r].buttons \cap Registered(stored[r].kind)
  PROVE  LET reply == Reply(stored[r], action)
         IN  /\ reply.effect = Promise(action)
             /\ reply.granted \subseteq stored[r].wants.permissions
             /\ \A u \in reply.updates : u.destination = "session"
  <1>1. Asked(r)
    BY DEF ApprovalInv
  <1>2. CASE stored[r].backend = "codex"
    BY <1>1, <1>2 DEF Asked, Reply, CodexReply, Registered, Promise
  <1>3. CASE stored[r].backend # "codex"
    BY <1>1, <1>3 DEF Asked, Reply, ClaudeReply, Registered, Promise
  <1> QED
    BY <1>2, <1>3

\* Every step keeps the invariant.
LEMMA ApprovalKept ==
  ASSUME Bounded, ApprovalInv, [Next]_vars
  PROVE  ApprovalInv'
  <1> USE DEF ApprovalInv
  <1>1. ASSUME NEW i \in Items, NEW c \in ItemContents, ItemStarted(i, c) PROVE ApprovalInv'
    <2>1. Proper(c)
      BY DEF Bounded
    <2>2. Tracked'
      BY <1>1, <2>1 DEF ItemStarted, Tracked
    <2> QED
      BY <1>1, <2>2 DEF ItemStarted, Asked, Answered
  <1>2. ASSUME NEW i \in Items, ItemCompleted(i) PROVE ApprovalInv'
    <2>1. Tracked'
      BY <1>2, EmptyProper DEF ItemCompleted, Tracked
    <2> QED
      BY <1>2, <2>1 DEF ItemCompleted, Asked, Answered
  <1>3. CASE TurnEnds
    <2>1. Tracked'
      BY <1>3, EmptyProper DEF TurnEnds, Tracked
    <2>2. /\ DOMAIN stored' = Requests /\ UNCHANGED <<card, answers>>
          /\ \A r \in Requests : stored'[r] \in {stored[r], NoRequest}
      BY <1>3 DEF TurnEnds
    <2> QED
      BY <2>1, <2>2 DEF Asked, Answered
  <1>4. ASSUME NEW r \in Requests, NEW i \in Items, NEW a \in AskContents,
               ApprovalRequested(r, a.kind, i, a.content)
        PROVE  ApprovalInv'
    <2> DEFINE request == Merge(items[i], a.content)
               new == [kind |-> a.kind, backend |-> "codex", request |-> request,
                       permissions |-> IF a.kind = "permissions" THEN request.permissions ELSE {},
                       updates |-> {}, wants |-> request]
               body == Body(a.kind, request, request.permissions)
               buttons == CodexButtons(a.kind)
    <2>1. Proper(request)
      BY MergeProper DEF Tracked, Bounded
    <2> HIDE DEF request
    <2>2. Informed(new, body)
      BY <2>1, CardInforms DEF Bounded
    <2>3. /\ card[r] = NoCard /\ stored' = [stored EXCEPT ![r] = new]
          /\ card' = [card EXCEPT ![r] = [body |-> body, buttons |-> buttons, text |-> "open"]]
          /\ UNCHANGED <<began, items, answers>>
      BY <1>4 DEF ApprovalRequested, Snapshot, Tracked, request
    <2>4. /\ new.permissions \subseteq new.wants.permissions /\ new.updates = {}
          /\ new.backend = "codex"
      OBVIOUS
    <2> HIDE DEF new, body, buttons
    <2> QED
      BY <2>2, <2>3, <2>4, AskKept
  <1>5. ASSUME NEW r \in Requests, NEW a \in ToolContents, NEW s \in Suggestions,
               ClaudeAsks(r, a.kind, a.content, s)
        PROVE  ApprovalInv'
    <2> DEFINE new == [kind |-> a.kind, backend |-> "claude", request |-> a.content,
                       permissions |-> {}, updates |-> Safe(s), wants |-> a.content]
               body == Body(a.kind, a.content, {})
               buttons == ClaudeButtons(a.kind, Safe(s))
    <2>1. Informed(new, body)
      BY CardInforms DEF Bounded
    <2>2. /\ card[r] = NoCard /\ stored' = [stored EXCEPT ![r] = new]
          /\ card' = [card EXCEPT ![r] = [body |-> body, buttons |-> buttons, text |-> "open"]]
          /\ UNCHANGED <<began, items, answers>>
      BY <1>5 DEF ClaudeAsks
    <2>3. /\ new.permissions = {} /\ new.updates = Safe(s) /\ new.backend = "claude"
          /\ \A u \in Safe(s) : u.destination = "session"
          /\ Safe(s) = {} => "accept_session" \notin buttons
      BY DEF Safe, ClaudeButtons
    <2> HIDE DEF new, body, buttons
    <2> QED
      BY <2>1, <2>2, <2>3, AskKept
  <1>6. ASSUME NEW r \in Requests, NEW action, PressUnknown(r, action) PROVE ApprovalInv'
    BY <1>6 DEF PressUnknown, Tracked, Asked, Answered
  <1>7. ASSUME NEW r \in Requests, NEW action, Press(r, action) PROVE ApprovalInv'
    <2> DEFINE a == [action |-> action, reply |-> Reply(stored[r], action)]
    <2>1. /\ a.action = action /\ a.reply = Reply(stored[r], action)
          /\ a.reply.effect = Promise(action)
          /\ a.reply.granted \subseteq stored[r].wants.permissions
          /\ \A u \in a.reply.updates : u.destination = "session"
      BY <1>7, ReplyKeepsPromise DEF Press
    <2>2. /\ answers' = [answers EXCEPT ![r] = Append(answers[r], a)]
          /\ card' = [card EXCEPT ![r] = [card[r] EXCEPT !.text = DecisionText(action)]]
          /\ UNCHANGED <<began, items, stored>>
          /\ stored[r] # NoRequest
      BY <1>7 DEF Press
    <2> HIDE DEF a
    <2>3. Tracked' /\ DOMAIN stored' = Requests /\ DOMAIN card' = Requests
          /\ DOMAIN answers' = Requests
      BY <2>2 DEF Tracked
    <2>4. /\ card'[r].body = card[r].body /\ card'[r].buttons = card[r].buttons
          /\ card'[r].text = DecisionText(action) /\ DOMAIN card'[r] = {"body", "buttons", "text"}
      BY <2>2
    <2>5. DecisionText(action) = Promise(action) /\ DecisionText(action) # "none"
      BY DEF DecisionText, Promise
    <2>6. card'[r] # NoCard
      BY <2>4, <2>5 DEF NoCard
    <2>7. ASSUME NEW q \in Requests \ {r}
          PROVE  stored'[q] = stored[q] /\ card'[q] = card[q] /\ answers'[q] = answers[q]
      BY <2>2
    <2>8. Asked(r)'
      BY <2>2, <2>4 DEF Asked
    <2>9. /\ Len(answers'[r]) = Len(answers[r]) + 1 /\ Len(answers[r]) \in Nat
          /\ \A n \in 1 .. Len(answers[r]) : answers'[r][n] = answers[r][n]
          /\ answers'[r][Len(answers[r]) + 1] = a
          /\ IsSequence(answers'[r])
      <3> DEFINE S == {answers[r][n] : n \in 1 .. Len(answers[r])} \cup {a}
                 z == answers'[r]
      <3>a. IsSequence(answers[r]) /\ z = Append(answers[r], a)
        BY <2>2
      <3>b. answers[r] \in Seq({answers[r][n] : n \in 1 .. Len(answers[r])})
        BY <3>a DEF IsSequence
      <3>1. answers[r] \in Seq(S) /\ a \in S /\ z = Append(answers[r], a)
        <4> HIDE DEF z
        <4> QED
          BY <3>a, <3>b
      <3> HIDE DEF S, z
      <3>2. /\ z \in Seq(S) /\ Len(z) = Len(answers[r]) + 1 /\ Len(answers[r]) \in Nat
            /\ \A n \in 1 .. Len(answers[r]) : z[n] = answers[r][n]
            /\ z[Len(answers[r]) + 1] = a
        BY <3>1
      <3>3. IsSequence(z)
        BY <3>2 DEF IsSequence
      <3> QED
        BY <3>2, <3>3 DEF z
    <2>10. ASSUME NEW n \in 1 .. Len(answers'[r])
           PROVE  /\ Answered(r, answers[r][n])'
                  /\ n = Len(answers'[r]) => card'[r].text = answers'[r][n].reply.effect
      <3>1. CASE n = Len(answers[r]) + 1
        BY <2>1, <2>2, <2>4, <2>5, <2>9, <3>1 DEF Answered
      <3>2. CASE n \in 1 .. Len(answers[r])
        BY <2>2, <2>9, <3>2 DEF Answered
      <3> QED
        BY <2>9, <3>1, <3>2
    <2> QED
      BY <2>3, <2>4, <2>6, <2>7, <2>8, <2>9, <2>10 DEF Asked, Answered
  <1>8. CASE UNCHANGED vars
    BY <1>8 DEF vars, Tracked, Asked, Answered
  <1> QED
    BY <1>1, <1>2, <1>3, <1>4, <1>5, <1>6, <1>7, <1>8 DEF Next

\* Whatever is asked, shown and pressed, an answer the backend gets is the one the
\* pressed button has promised, on a card that named what it allows.
THEOREM ApprovalsInformed ==
  ASSUME Bounded
  PROVE  Spec => []AnswersAreInformed
  <1>1. Init => ApprovalInv
    <2> SUFFICES ASSUME Init PROVE ApprovalInv
      OBVIOUS
    <2>1. Tracked
      BY EmptyProper DEF Init, Tracked
    <2>2. Len(<<>>) = 0 /\ <<>> \in Seq({})
      OBVIOUS
    <2> QED
      BY <2>1, <2>2 DEF Init, ApprovalInv, Asked, NoCard, IsSequence
  <1>2. ApprovalInv /\ [Next]_vars => ApprovalInv'
    BY ApprovalKept
  <1> QED
    BY <1>1, <1>2, InvInforms, PTL DEF Spec
=============================================================================
