---------------------------- MODULE ModelSettings ----------------------------
(* Which model, effort and permission mode a turn runs with: the defaults of *)
(* the bot, kept both globally and in its profile, the overrides of a group  *)
(* and of a session, the handlers that change them while a turn starts, and  *)
(* the permission modes applied to a running Claude process.                 *)
EXTENDS Naturals, FiniteSets, Sequences

CONSTANTS Backends,    \* the backends a frontend may have: "codex", "claude"
          MaxChanges,  \* settings changed, at most
          MaxFailures  \* RPCs that fail, at most

VARIABLES backend, group,  \* the frontend's backend; is the chat a group?
          config,     \* global values by field
          options,    \* the candidate models of the configuration
          profile,    \* the frontend's default profile
          binding,    \* the overrides of the group
          session,    \* the overrides of the session and of its thread
          handlers,   \* handlers past the fetch of the model list
          blocked,    \* does a restart or an upgrade forbid changes?
          turn,       \* the start of a turn: its stage and its session copy
          saved,      \* the session's auxiliary model as last acknowledged
          mode,       \* the permission mode of the Claude process, if it runs
          applies,    \* permission changes on their way to the process
          changes, failures

vars == <<backend, group, config, options, profile, binding, session, handlers,
  blocked, turn, saved, mode, applies, changes, failures>>

Fields == {"model", "effort", "planModel", "planEffort", "aux",
           "claudeModel", "claudeEffort", "claudeAux", "tier", "permission"}
Settings == {"model", "effort", "planModel", "planEffort", "aux"}
\* The catalog of the app-server; the first model is its default one.
Catalog == [m |-> {"lo", "hi"}, n |-> {"lo"}]
DefaultModel == "m"
Candidate == "x"   \* a model the configuration adds, without any effort
ValuesOf(setting) ==
  IF setting \in {"effort", "planEffort"} THEN {"", "lo", "hi"}
  ELSE {"", "m", "n", Candidate}
Blank == [f \in Fields |-> ""]
NoSession ==
  [exists |-> FALSE, live |-> FALSE, planModel |-> "", aux |-> "", tier |-> "",
   permission |-> ""]
NoTurn == [stage |-> "none", copy |-> NoSession]
\* The first value that is not blank.
First(values) ==
  LET given == SelectSeq(values, LAMBDA v : v # "")
  IN IF given = <<>> THEN "" ELSE Head(given)

\* The field each tier keeps a setting in; "" where the backend has none.
GlobalField(on, setting) ==
  CASE on = "codex" \/ setting \in {"tier", "permission"} -> setting
    [] setting = "model" -> "claudeModel" [] setting = "aux" -> "claudeAux"
    [] setting = "effort" -> "claudeEffort" [] OTHER -> ""
ProfileField(on, setting) ==
  IF setting = "effort" THEN setting ELSE GlobalField(on, setting)

Entry(known, model) == IF model \in DOMAIN Catalog \cup known THEN model ELSE DefaultModel
SupportsEffort(entry, effort) ==
  effort = "" \/ (entry \in DOMAIN Catalog /\ effort \in Catalog[entry])

\* What a turn of the session runs with on a backend: the session's override,
\* the group's, the bot's default, the global value.
Resolve(on, sess) ==
  LET Tiered(setting) ==
        First(<<IF setting \in DOMAIN sess THEN sess[setting] ELSE "",
                IF group THEN binding[setting] ELSE "",
                IF GlobalField(on, setting) = "" THEN "" ELSE profile[ProfileField(on, setting)],
                IF GlobalField(on, setting) = "" THEN "" ELSE config[GlobalField(on, setting)]>>)
      Or(value, fallback) == IF value = "" THEN fallback ELSE value
  IN [model |-> Tiered("model"), effort |-> Tiered("effort"),
      planModel |-> IF on = "claude" THEN "" ELSE Or(Tiered("planModel"), Tiered("model")),
      planEffort |-> IF on = "claude" THEN "" ELSE Tiered("planEffort"),
      aux |-> Or(Tiered("aux"), Tiered("model")),
      tier |-> Tiered("tier"),
      permission |-> Or(Tiered("permission"), "default")]

Init ==
  /\ backend \in Backends /\ group \in BOOLEAN
  /\ config = Blank /\ options = {} /\ profile = Blank /\ binding = Blank
  /\ session = NoSession /\ handlers = {} /\ blocked = FALSE
  /\ turn = NoTurn /\ saved = "" /\ mode = "" /\ applies = {}
  /\ changes = 0 /\ failures = 0

scopes == <<config, options, profile, binding>>
MayChange == changes < MaxChanges /\ changes' = changes + 1
MayFail == failures < MaxFailures /\ failures' = failures + 1

-----------------------------------------------------------------------------
(* The defaults of the bot *)

\* A bug: the handler's own check stands for the clearing.
SetUnchecked(setting, value, listed, known) ==
  /\ config' = [config EXCEPT ![GlobalField(backend, setting)] = value]
  /\ profile' = [profile EXCEPT ![ProfileField(backend, setting)] = value]

\* One revision writes a default globally and to the profile; with the catalog
\* at hand it clears the efforts that the models it leads to do not support.
SetDefault(setting, value, listed, known) ==
  LET g == [config EXCEPT ![GlobalField(backend, setting)] = value]
      p == [profile EXCEPT ![ProfileField(backend, setting)] = value]
      Pick(field) == First(<<p[field], g[field]>>)
      plan == First(<<p.planModel, g.planModel, Pick("model")>>)
      Keep(model, effort) == ~listed \/ SupportsEffort(Entry(known, model), Pick(effort))
      Kept(v) ==
        [v EXCEPT !.effort = IF Keep(Pick("model"), "effort") THEN @ ELSE "",
                  !.planEffort = IF Keep(plan, "planEffort") THEN @ ELSE ""]
  IN config' = Kept(g) /\ profile' = Kept(p)

\* A card or a command that changes a Codex default asks for the model list.
Ask(setting, value) ==
  /\ backend = "codex" /\ MayChange /\ Cardinality(handlers) < 2
  /\ setting # "aux" /\ value \in ValuesOf(setting)
  /\ handlers' = handlers \cup
       {[setting |-> setting, value |-> value, listed |-> FALSE, known |-> {}]}
  /\ UNCHANGED <<backend, group, scopes, session, blocked, turn, saved, mode,
                 applies, failures>>

\* What the handler refuses once it has the list; it reads the global values
\* only. A card may name a model that is gone, a command may not.
Refused(h) ==
  CASE h.setting = "effort" -> ~SupportsEffort(Entry(options, config.model), h.value)
    [] h.setting = "planEffort" ->
         ~SupportsEffort(Entry(options, First(<<config.planModel, config.model>>)), h.value)
    [] h.setting = "planModel" -> h.value \notin {""} \cup DOMAIN Catalog \cup options
    [] OTHER -> FALSE

Listed(h) ==
  /\ ~h.listed
  /\ handlers' = (handlers \ {h}) \cup
       (IF Refused(h) THEN {} ELSE {[h EXCEPT !.listed = TRUE, !.known = options]})
  /\ UNCHANGED <<backend, group, scopes, session, blocked, turn, saved, mode,
                 applies, changes, failures>>

ListFails(h) ==
  /\ ~h.listed /\ MayFail /\ handlers' = handlers \ {h}
  /\ UNCHANGED <<backend, group, scopes, session, blocked, turn, saved, mode,
                 applies, changes>>

Write(h) ==
  /\ h.listed /\ handlers' = handlers \ {h}
  /\ IF blocked THEN UNCHANGED <<config, profile>>
     ELSE SetDefault(h.setting, h.value, TRUE, h.known)
  /\ UNCHANGED <<backend, group, options, binding, session, blocked, turn,
                 saved, mode, applies, changes, failures>>

\* Defaults written without the catalog: Claude's, and the auxiliary models.
WriteDirectly(setting, value) ==
  /\ MayChange /\ ~blocked /\ value \in ValuesOf(setting)
  /\ setting = "aux" \/ (backend = "claude" /\ setting \in {"model", "effort"})
  /\ SetDefault(setting, value, FALSE, {})
  /\ UNCHANGED <<backend, group, options, binding, session, handlers, blocked,
                 turn, saved, mode, applies, failures>>

\* The candidate models of the configuration.
ChangeOptions(add) ==
  /\ MayChange /\ options' = IF add THEN {Candidate} ELSE {}
  /\ UNCHANGED <<backend, group, config, profile, binding, session, handlers,
                 blocked, turn, saved, mode, applies, failures>>

-----------------------------------------------------------------------------
(* The overrides of a group, a bot and a session *)

\* A group's overrides are not checked against the catalog.
SetBinding(setting, value) ==
  /\ group /\ MayChange /\ value \in ValuesOf(setting)
  /\ blocked => setting = "tier"
  /\ binding' = [binding EXCEPT ![setting] = value]
  /\ UNCHANGED <<backend, group, config, options, profile, session, handlers,
                 blocked, turn, saved, mode, applies, failures>>

\* The service tier of a private chat is the bot's, a toggle in one transaction.
ChangeServiceTier ==
  /\ ~group /\ MayChange
  /\ profile' = [profile EXCEPT !.tier = IF @ = "fast" THEN "" ELSE "fast"]
  /\ UNCHANGED <<backend, group, config, options, binding, session, handlers,
                 blocked, turn, saved, mode, applies, failures>>

\* A private chat keeps its auxiliary models in its session once there is one,
\* in the bot's profile before that.
SaveAuxiliary(setting, value) ==
  /\ ~group /\ ~blocked /\ MayChange /\ value \in ValuesOf(setting)
  /\ setting = "aux" \/ (backend = "codex" /\ setting = "planModel")
  /\ IF session.exists
     THEN /\ session' = [session EXCEPT ![setting] = value] /\ UNCHANGED profile
          /\ saved' = IF setting = "aux" THEN value ELSE saved
     ELSE /\ profile' = [profile EXCEPT ![ProfileField(backend, setting)] = value]
          /\ UNCHANGED <<session, saved>>
  /\ UNCHANGED <<backend, group, config, options, binding, handlers, blocked,
                 turn, mode, applies, failures>>

\* A setting of the current thread; it goes with the thread.
SetThreadTier ==
  /\ session.live /\ MayChange
  /\ session' = [session EXCEPT !.tier = IF @ = "fast" THEN "" ELSE "fast"]
  /\ UNCHANGED <<backend, group, scopes, handlers, blocked, turn, saved, mode,
                 applies, failures>>

-----------------------------------------------------------------------------
(* Permission modes of a Claude session *)

\* A card's change is applied on the session's actor, a command's by its own
\* goroutine on the chat's; either reads the mode when it comes to apply it.
SetPermission(by, value) ==
  /\ backend = "claude" /\ session.live /\ MayChange
  /\ ~\E a \in applies : a.by = by /\ (by = "command" \/ a.mode = "")
  /\ session' = [session EXCEPT !.permission = value]
  /\ applies' = applies \cup {[by |-> by, mode |-> ""]}
  /\ UNCHANGED <<backend, group, scopes, handlers, blocked, turn, saved, mode,
                 failures>>

ReadPermission(a) ==
  /\ a.mode = "" /\ ~\E b \in applies : b.by = a.by /\ b.mode # ""
  /\ applies' = (applies \ {a}) \cup
       (IF session.live THEN {[a EXCEPT !.mode = Resolve(backend, session).permission]} ELSE {})
  /\ UNCHANGED <<backend, group, scopes, session, handlers, blocked, turn, saved,
                 mode, changes, failures>>

\* Without a process there is nothing to tell; a failure is shown on the card.
ApplyPermission(a) ==
  /\ a.mode # "" /\ applies' = applies \ {a}
  /\ \/ mode' = (IF mode = "" THEN "" ELSE a.mode) /\ UNCHANGED failures
     \/ mode # "" /\ MayFail /\ UNCHANGED mode
  /\ UNCHANGED <<backend, group, scopes, session, handlers, blocked, turn, saved,
                 changes>>

\* The process ends, or is stopped for a setting it cannot take.
ProcessEnds ==
  /\ mode # "" /\ mode' = ""
  /\ UNCHANGED <<backend, group, scopes, session, handlers, blocked, turn, saved,
                 applies, changes, failures>>

-----------------------------------------------------------------------------
(* The start of a turn *)

\* The start loads the session; a thread that is not live any more is dropped
\* with its settings.
TurnLoads ==
  /\ turn.stage = "none" /\ changes < MaxChanges
  /\ \E live \in BOOLEAN :
       turn' = [stage |-> "loaded", copy |->
         IF session.live /\ live THEN [session EXCEPT !.exists = TRUE]
         ELSE [session EXCEPT !.exists = TRUE, !.live = FALSE, !.tier = "", !.permission = ""]]
  /\ session' = [session EXCEPT !.exists = TRUE]
  /\ UNCHANGED <<backend, group, scopes, handlers, blocked, saved, mode, applies,
                 changes, failures>>

\* The thread is there: the copy is saved over the session.
TurnStarting ==
  /\ backend = "codex" /\ turn.stage = "loaded"
  /\ turn' = [stage |-> "starting", copy |-> [turn.copy EXCEPT !.live = TRUE]]
  /\ session' = turn'.copy
  /\ UNCHANGED <<backend, group, scopes, handlers, blocked, saved, mode, applies,
                 changes, failures>>

\* turn/start answered: the same copy is saved once more.
TurnStarted ==
  /\ turn.stage = "starting"
  /\ turn' = [turn EXCEPT !.stage = "running"] /\ session' = turn.copy
  /\ UNCHANGED <<backend, group, scopes, handlers, blocked, saved, mode, applies,
                 changes, failures>>

\* thread/start or turn/start fails, or turn/start times out and goes on.
TurnStartFails ==
  /\ turn.stage \in {"loaded", "starting"} /\ MayFail
  /\ \/ turn' = NoTurn
     \/ turn.stage = "starting" /\ turn' = [turn EXCEPT !.stage = "running"]
  /\ UNCHANGED <<backend, group, scopes, session, handlers, blocked, saved, mode,
                 applies, changes>>

\* Claude's process starts with the mode of the stored session; its thread is
\* set in an update of the session.
ProcessStarts ==
  /\ backend = "claude" /\ turn.stage = "loaded" /\ mode = ""
  /\ mode' = Resolve(backend, session).permission
  /\ UNCHANGED <<backend, group, scopes, session, handlers, blocked, turn, saved,
                 applies, changes, failures>>

ClaudeStarted ==
  /\ backend = "claude" /\ turn.stage = "loaded" /\ mode # ""
  /\ turn' = [turn EXCEPT !.stage = "running"]
  /\ session' = [session EXCEPT !.live = TRUE]
  /\ UNCHANGED <<backend, group, scopes, handlers, blocked, saved, mode, applies,
                 changes, failures>>

\* A Claude session that cannot be resumed: the copy is saved without its thread.
ResumeFails ==
  /\ backend = "claude" /\ turn.stage = "loaded" /\ turn.copy.live /\ mode = ""
  /\ MayFail
  /\ LET fresh == [turn.copy EXCEPT !.live = FALSE, !.tier = "", !.permission = ""]
     IN turn' = [turn EXCEPT !.copy = fresh] /\ session' = fresh
  /\ UNCHANGED <<backend, group, scopes, handlers, blocked, saved, mode, applies,
                 changes>>

TurnEnds ==
  /\ turn.stage = "running" /\ turn' = NoTurn
  /\ UNCHANGED <<backend, group, scopes, session, handlers, blocked, saved, mode,
                 applies, changes, failures>>

-----------------------------------------------------------------------------
(* What forbids changes: a restart or an upgrade of the backend *)

Maintenance ==
  /\ MayFail /\ blocked' = ~blocked
  /\ UNCHANGED <<backend, group, scopes, session, handlers, turn, saved, mode,
                 applies, changes>>

Next ==
  \/ \E s \in Settings : \E v \in ValuesOf(s) :
       Ask(s, v) \/ WriteDirectly(s, v) \/ SetBinding(s, v) \/ SaveAuxiliary(s, v)
  \/ \E h \in handlers : Listed(h) \/ ListFails(h) \/ Write(h)
  \/ \E add \in BOOLEAN : ChangeOptions(add)
  \/ ChangeServiceTier \/ SetThreadTier
  \/ \E by \in {"card", "command"} : \E v \in {"", "acceptEdits"} : SetPermission(by, v)
  \/ \E a \in applies : ReadPermission(a) \/ ApplyPermission(a)
  \/ ProcessStarts \/ ProcessEnds
  \/ TurnLoads \/ TurnStarting \/ TurnStarted \/ TurnStartFails \/ TurnEnds
  \/ ClaudeStarted \/ ResumeFails
  \/ Maintenance

Spec == Init /\ [][Next]_vars

-----------------------------------------------------------------------------
(* Properties *)

\* The default pair a bot's turns get is one its model supports, whatever
\* handlers validated a value against a model another one replaced meanwhile.
PairFits ==
  LET default == First(<<profile.model, config.model>>)
      effort == First(<<profile.effort, config.effort>>)
  IN default \in {""} \cup DOMAIN Catalog => SupportsEffort(Entry({}, default), effort)

\* An auxiliary model acknowledged as saved in the session stays there until it
\* is changed again (settings.go:46-47).
SettingPersists == session.aux = saved
=============================================================================
