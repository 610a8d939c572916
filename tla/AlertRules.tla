----------------------------- MODULE AlertRules -----------------------------
(***************************************************************************)
(* Alert rules of one organisation and the emission of events.  emitEvent  *)
(* writes an event, evaluates the rules for it and only then queues the    *)
(* event's own deliveries.  An evaluation loads the rules once and goes    *)
(* through them one call at a time: a rule that applies and is out of its  *)
(* cooldown is stamped, and its alert is an event of its own, which is     *)
(* queued, and queued again for later when the organisation escalates.     *)
(*                                                                         *)
(* Any number of emissions run at once, while administrators create, edit  *)
(* and delete rules and a watchlist template makes its own.  Queueing is   *)
(* one step here; NotificationDelivery has what happens to a queued one.   *)
(***************************************************************************)
EXTENDS Naturals, FiniteSets

CONSTANTS
  Events,    \* the calls of emitEvent there may be
  Sources,   \* what they are emitted for
  Rules,     \* rows of AlertRule
  Shapes,    \* what an administrator makes of a rule
  Tenders, Templates, Requests,  \* requests that create a rule
  Automations, \* settings of the organisation's alert automation
  None, Never,
  MaxRules,  \* ALERTS_MAX_RULES_PER_ORG
  TemplateCooldown,   \* the default of cooldownMin
  MaxTime, MaxEdits, MaxFaults   \* bounds

Types      == {"TENDER_CHANGED", "DEADLINE_CHANGED", "SUMMARY_CREATED"}
Automation == {"off", "escalating"}

\* named: the event carries its tender's id; worded: its text has the keywords.
SourceKinds == [type : Types \cup {"OTHER"}, named : BOOLEAN, worded : BOOLEAN]
\* No types and no tender mean all of them.
RuleShapes == [types : SUBSET Types, tender : Tenders \cup {None}, words : BOOLEAN,
               cooldown : Nat]

ASSUME AlertAssumption ==
  /\ Automations \subseteq Automation /\ Sources \subseteq SourceKinds
  /\ Shapes \subseteq RuleShapes
  /\ IsFiniteSet(Rules) /\ None \notin Tenders \cup Rules \cup Templates /\ Never \notin Nat
  /\ {MaxRules, TemplateCooldown, MaxTime, MaxEdits, MaxFaults} \subseteq Nat

VARIABLES
  rule,     \* AlertRule rows
  now, edits, faults,
  pc,       \* where each emission is
  about,    \* what it was called with and when
  seen,     \* the rules it loaded
  todo,     \* those it has still to look at
  cur, at,  \* the rule it is firing, and the time it will stamp
  request,
  fired,    \* history: stamps
  alerted,  \* history: alerts queued
  contended,  \* history: rules stamped while another evaluation held them
  faulted   \* history: emissions a database call of which threw

evaluation == <<about, seen, todo, cur, at>>
history    == <<fired, alerted, contended, faulted>>
vars == <<rule, now, edits, faults, pc, evaluation, request, history>>

Times == 0..MaxTime
RuleRows ==
  [state : {"none", "live", "deleted"}, on : BOOLEAN, shape : RuleShapes,
   template : Templates \cup {None}, last : Times \cup {Never}]
Calls == [src : SourceKinds, tender : Tenders \cup {None}, began : Times, auto : Automation]
Steps == {"idle", "load", "look", "stamp", "alert", "escalate", "queue", "done", "failed"}
Requested == [pc : {"idle", "counted", "missing", "done"}, template : Templates \cup {None}]

AnyShape == [types |-> {}, tender |-> None, words |-> FALSE, cooldown |-> 0]
TemplateShape == [types |-> {"TENDER_CHANGED", "SUMMARY_CREATED"}, tender |-> None,
                  words |-> TRUE, cooldown |-> TemplateCooldown]
NoRule  == [state |-> "none", on |-> FALSE, shape |-> AnyShape, template |-> None, last |-> Never]
NewRule(shape, t) ==
  [state |-> "live", on |-> TRUE, shape |-> shape, template |-> t, last |-> Never]
NoCall  == [src |-> [type |-> "OTHER", named |-> FALSE, worded |-> FALSE],
            tender |-> None, began |-> 0, auto |-> "off"]

\* Rules made earlier may be there.
Init ==
  /\ rule \in [Rules -> {NoRule} \cup {NewRule(s, None) : s \in Shapes}]
  /\ Cardinality({r \in Rules : rule[r].state = "live"}) <= MaxRules
  /\ now = 0 /\ edits = 0 /\ faults = 0
  /\ pc = [e \in Events |-> "idle"] /\ about = [e \in Events |-> NoCall]
  /\ seen = [e \in Events |-> [r \in Rules |-> NoRule]]
  /\ todo = [e \in Events |-> {}] /\ cur = [e \in Events |-> None]
  /\ at = [e \in Events |-> 0]
  /\ request = [q \in Requests |-> [pc |-> "idle", template |-> None]]
  /\ fired = {} /\ alerted = {} /\ contended = {} /\ faulted = {}

Live == {r \in Rules : rule[r].state = "live"}

\* An evaluation that may still fire r on what it loaded.
Holds(e, r) == r \in todo[e] \/ (pc[e] = "stamp" /\ cur[e] = r)

-----------------------------------------------------------------------------
(* emitEvent and evaluateRulesForEvent. *)

Emit(e) ==
  /\ pc[e] = "idle"
  /\ \E s \in Sources, t \in Tenders, a \in Automations :
       /\ about' = [about EXCEPT ![e] = [src |-> s, tender |-> t, began |-> now, auto |-> a]]
       /\ pc' = [pc EXCEPT ![e] = IF s.type = "OTHER" THEN "queue" ELSE "load"]
  /\ UNCHANGED <<rule, now, edits, faults, seen, todo, cur, at, request, history>>

Load(e) ==
  /\ pc[e] = "load"
  /\ seen' = [seen EXCEPT ![e] = rule]
  /\ todo' = [todo EXCEPT ![e] = {r \in Live : rule[r].on}]
  /\ pc' = [pc EXCEPT ![e] = "look"]
  /\ UNCHANGED <<rule, now, edits, faults, about, cur, at, request, history>>

\* A tender-scoped rule is passed over only for an event that names another tender.
InScope(r, c) == r.tender = None \/ ~c.src.named \/ r.tender = c.tender

Applies(r, c) ==
  /\ InScope(r, c)
  /\ r.types = {} \/ c.src.type \in r.types
  /\ r.words => c.src.worded

Cooling(r, t) == r.last # Never /\ r.last + r.shape.cooldown > t

LookAny(e, r) ==   \* mutant: the cooldown is not looked at
  /\ pc[e] = "look" /\ r \in todo[e]
  /\ todo' = [todo EXCEPT ![e] = @ \ {r}]
  /\ IF Applies(seen[e][r].shape, about[e])
       THEN /\ pc' = [pc EXCEPT ![e] = "stamp"] /\ cur' = [cur EXCEPT ![e] = r]
            /\ at' = [at EXCEPT ![e] = now]
       ELSE UNCHANGED <<pc, cur, at>>
  /\ UNCHANGED <<rule, now, edits, faults, about, seen, request, history>>

Look(e, r) ==
  /\ pc[e] = "look" /\ r \in todo[e]
  /\ todo' = [todo EXCEPT ![e] = @ \ {r}]
  /\ IF Applies(seen[e][r].shape, about[e]) /\ ~Cooling(seen[e][r], now)
       THEN /\ pc' = [pc EXCEPT ![e] = "stamp"] /\ cur' = [cur EXCEPT ![e] = r]
            /\ at' = [at EXCEPT ![e] = now]
       ELSE UNCHANGED <<pc, cur, at>>
  /\ UNCHANGED <<rule, now, edits, faults, about, seen, request, history>>

StampOrFail(e) ==   \* mutant: the update asks for an enabled rule
  LET r == cur[e] IN
  /\ pc[e] = "stamp"
  /\ IF rule[r].state = "live" /\ rule[r].on
       THEN /\ rule' = [rule EXCEPT ![r].last = at[e]]
            /\ pc' = [pc EXCEPT ![e] = "alert"]
       ELSE pc' = [pc EXCEPT ![e] = "failed"] /\ UNCHANGED rule
  /\ UNCHANGED <<now, edits, faults, evaluation, request, history>>

StampDue(e) ==   \* mutant: the end of the cooldown is written
  LET r == cur[e] IN
  /\ pc[e] = "stamp" /\ rule[r].state = "live"
  /\ rule' = [rule EXCEPT ![r].last = at[e] + seen[e][r].shape.cooldown]
  /\ pc' = [pc EXCEPT ![e] = "alert"]
  /\ UNCHANGED <<now, edits, faults, evaluation, request, history>>

\* The update of a rule that was deleted meanwhile throws, out of emitEvent.
Stamp(e) ==
  LET r == cur[e] IN
  /\ pc[e] = "stamp"
  /\ IF rule[r].state = "live"
       THEN /\ rule' = [rule EXCEPT ![r].last = at[e]]
            /\ pc' = [pc EXCEPT ![e] = "alert"]
            /\ fired' = fired \cup {[rule |-> r, by |-> e, at |-> at[e],
                                     cooldown |-> seen[e][r].shape.cooldown]}
            /\ contended' = IF \E o \in Events \ {e} : Holds(o, r)
                              THEN contended \cup {r} ELSE contended
            /\ UNCHANGED todo
       ELSE /\ pc' = [pc EXCEPT ![e] = "failed"] /\ todo' = [todo EXCEPT ![e] = {}]
            /\ UNCHANGED <<rule, fired, contended>>
  /\ UNCHANGED <<now, edits, faults, about, seen, cur, at, request, alerted, faulted>>

NextRule(e) ==
  /\ pc' = [pc EXCEPT ![e] = "look"]
  /\ cur' = [cur EXCEPT ![e] = None] /\ at' = [at EXCEPT ![e] = 0]

EmitAlertLast(e) ==   \* mutant: the loop ends with the first rule that fires
  /\ pc[e] = "alert"
  /\ alerted' = alerted \cup {<<e, cur[e], "alert">>}
  /\ pc' = [pc EXCEPT ![e] = "queue"]
  /\ UNCHANGED <<rule, now, edits, faults, evaluation, request, fired, contended, faulted>>

EmitAlert(e) ==
  /\ pc[e] = "alert"
  /\ alerted' = alerted \cup {<<e, cur[e], "alert">>}
  /\ IF about[e].auto = "escalating"
       THEN pc' = [pc EXCEPT ![e] = "escalate"] /\ UNCHANGED <<cur, at>>
       ELSE NextRule(e)
  /\ UNCHANGED <<rule, now, edits, faults, about, seen, todo, request, fired, contended, faulted>>

EmitEscalation(e) ==
  /\ pc[e] = "escalate"
  /\ alerted' = alerted \cup {<<e, cur[e], "escalation">>}
  /\ NextRule(e)
  /\ UNCHANGED <<rule, now, edits, faults, about, seen, todo, request, fired, contended, faulted>>

EndLoop(e) ==
  /\ pc[e] = "look" /\ todo[e] = {}
  /\ pc' = [pc EXCEPT ![e] = "queue"]
  /\ UNCHANGED <<rule, now, edits, faults, evaluation, request, history>>

\* enqueueDeliveries for the event itself.
Queue(e) ==
  /\ pc[e] = "queue"
  /\ pc' = [pc EXCEPT ![e] = "done"]
  /\ seen' = [seen EXCEPT ![e] = [r \in Rules |-> NoRule]]
  /\ about' = [about EXCEPT ![e] = NoCall]
  /\ UNCHANGED <<rule, now, edits, faults, todo, cur, at, request, history>>

Active(e) == pc[e] \notin {"idle", "done", "failed"}

\* A call throws, or the process dies: nothing emits the event again.
Fail(e) ==
  /\ Active(e) /\ faults < MaxFaults
  /\ faults' = faults + 1 /\ faulted' = faulted \cup {e}
  /\ pc' = [pc EXCEPT ![e] = "failed"] /\ todo' = [todo EXCEPT ![e] = {}]
  /\ UNCHANGED <<rule, now, edits, about, seen, cur, at, request, fired, alerted, contended>>

-----------------------------------------------------------------------------
(* Administration. *)

\* A rule that is renamed is no longer found by its template's name.
EditRule(r) ==
  /\ r \in Live /\ edits < MaxEdits
  /\ \E s \in Shapes \cup {rule[r].shape}, b \in BOOLEAN, t \in {rule[r].template, None} :
       rule' = [rule EXCEPT ![r] = [@ EXCEPT !.shape = s, !.on = b, !.template = t]]
  /\ edits' = edits + 1
  /\ UNCHANGED <<now, faults, pc, evaluation, request, history>>

DeleteRule(r) ==
  /\ r \in Live /\ edits < MaxEdits
  /\ rule' = [rule EXCEPT ![r].state = "deleted"]
  /\ edits' = edits + 1
  /\ UNCHANGED <<now, faults, pc, evaluation, request, history>>

\* POST /rules: the number of rules is read before the new one is written.
CountRules(q) ==
  /\ request[q].pc = "idle"
  /\ request' = [request EXCEPT ![q].pc = IF Cardinality(Live) < MaxRules THEN "counted"
                                          ELSE "done"]
  /\ UNCHANGED <<rule, now, edits, faults, pc, evaluation, history>>

\* ensureTemplateAlertRule asks for a rule by name, not for their number.
FindTemplate(q, t) ==
  /\ request[q].pc = "idle"
  /\ request' = [request EXCEPT ![q] =
       [pc |-> IF \E r \in Live : rule[r].template = t THEN "done" ELSE "missing",
        template |-> t]]
  /\ UNCHANGED <<rule, now, edits, faults, pc, evaluation, history>>

CreateRule(q, r) ==
  /\ request[q].pc \in {"counted", "missing"} /\ rule[r].state = "none"
  /\ IF request[q].pc = "counted"
       THEN \E s \in Shapes : rule' = [rule EXCEPT ![r] = NewRule(s, None)]
       ELSE rule' = [rule EXCEPT ![r] = NewRule(TemplateShape, request[q].template)]
  /\ request' = [request EXCEPT ![q].pc = "done"]
  /\ UNCHANGED <<now, edits, faults, pc, evaluation, history>>

Tick ==
  /\ now < MaxTime
  /\ now' = now + 1
  /\ UNCHANGED <<rule, edits, faults, pc, evaluation, request, history>>

Evaluate(e) ==
  \/ Load(e) \/ Stamp(e) \/ EmitAlert(e) \/ EmitEscalation(e) \/ EndLoop(e) \/ Queue(e)
  \/ \E r \in Rules : Look(e, r)

Next ==
  \/ \E e \in Events : Emit(e) \/ Evaluate(e) \/ Fail(e)
  \/ \E r \in Rules : EditRule(r) \/ DeleteRule(r)
  \/ \E q \in Requests :
       \/ CountRules(q)
       \/ \E t \in Templates : FindTemplate(q, t)
       \/ \E r \in Rules : CreateRule(q, r)
  \/ Tick

Spec == Init /\ [][Next]_vars

-----------------------------------------------------------------------------
\* Rows, evaluations and requests are well typed.
TypeOK ==
  /\ rule \in [Rules -> RuleRows]
  /\ now \in Times /\ edits \in 0..MaxEdits /\ faults \in 0..MaxFaults
  /\ pc \in [Events -> Steps] /\ about \in [Events -> Calls]
  /\ seen \in [Events -> [Rules -> RuleRows]] /\ todo \in [Events -> SUBSET Rules]
  /\ cur \in [Events -> Rules \cup {None}] /\ at \in [Events -> Times]
  /\ request \in [Requests -> Requested]
  /\ fired \subseteq [rule : Rules, by : Events, at : Times, cooldown : Nat]
  /\ alerted \subseteq Events \X Rules \X {"alert", "escalation"}
  /\ contended \subseteq Rules /\ faulted \subseteq Events

\* evaluateRulesForEvent: a rule does not fire again within its cooldown,
\* whatever the order of the calls, unless it was once stamped while another
\* evaluation held it: only overlapping evaluations break the cooldown, and from
\* then on they may also have set lastFiredAt back.
CooldownKept ==
  [][\A f \in fired' \ fired, g \in fired :
       f.rule = g.rule => f.at >= g.at + f.cooldown \/ f.rule \in contended']_vars

\* What e loaded of r applies to it, and is out of its cooldown at t.
DueAt(e, r, t) ==
  /\ seen[e][r].state = "live" /\ seen[e][r].on
  /\ Applies(seen[e][r].shape, about[e]) /\ ~Cooling(seen[e][r], t)

\* By the time an event is queued, each rule it loaded that applies to it, and
\* whose cooldown was over when it was emitted, has its alert, and its escalation
\* if the organisation escalates.
NothingMissed ==
  \A e \in Events, r \in Rules :
    pc[e] = "queue" /\ about[e].src.type # "OTHER" /\ DueAt(e, r, about[e].began)
    => /\ <<e, r, "alert">> \in alerted
       /\ about[e].auto = "escalating" => <<e, r, "escalation">> \in alerted

\* An alert comes from a stamp of its event, an escalation follows its alert, and
\* a stamp from a rule that was due on what the evaluation had loaded.
NothingInvented ==
  /\ \A e \in Events, r \in Rules :
       /\ <<e, r, "alert">> \in alerted => \E f \in fired : f.by = e /\ f.rule = r
       /\ <<e, r, "escalation">> \in alerted => <<e, r, "alert">> \in alerted
  /\ \A f \in fired : pc[f.by] # "done" => DueAt(f.by, f.rule, f.at)

\* evaluateRulesForEvent: whatever administrators do meanwhile and wherever a call
\* throws, an event that is queued has alerted of every rule due when it was
\* emitted, no event has alerted of one that was not due when it was stamped, and
\* none fires a rule twice.
AlertsAreDue ==
  /\ NothingMissed /\ NothingInvented
  /\ \A f, g \in fired : f.by = g.by /\ f.rule = g.rule => f = g

\* An event loses its deliveries only if a call threw, or a rule it had loaded
\* was deleted before its stamp.
LostOnlyByDelete ==
  \A e \in Events : pc[e] = "failed" =>
    e \in faulted \/ \E r \in Rules : seen[e][r].state = "live" /\ rule[r].state = "deleted"
=============================================================================
