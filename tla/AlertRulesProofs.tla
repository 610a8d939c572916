-------------------------- MODULE AlertRulesProofs --------------------------
(***************************************************************************)
(* Proofs about AlertRules, for any number of events, rules and requests   *)
(* and every bound.  TInv has the types and what an emission at each step  *)
(* holds; Fresh ties what an evaluation read to the stamps that were made; *)
(* Paying says which rules it still owes an alert, Answers that it makes   *)
(* none up.                                                                *)
(***************************************************************************)
EXTENDS AlertRules, TLAPS

LEMMA Bounds ==
  /\ MaxTime \in Nat /\ MaxEdits \in Nat /\ MaxFaults \in Nat /\ TemplateCooldown \in Nat
  /\ Never \notin Nat /\ 0 \in Times
  /\ None \notin Rules /\ Automations \subseteq Automation
  /\ Sources \subseteq SourceKinds /\ Shapes \subseteq RuleShapes
  BY AlertAssumption DEF Times

-----------------------------------------------------------------------------
(* Types. *)

LEMMA ShapeTypes ==
  /\ NoRule \in RuleRows /\ NoCall \in Calls
  /\ TemplateShape \in RuleShapes
  /\ \A s \in RuleShapes, t \in Templates \cup {None} : NewRule(s, t) \in RuleRows
<1>1. AnyShape \in RuleShapes /\ TemplateShape \in RuleShapes
  BY Bounds DEF AnyShape, TemplateShape, RuleShapes, Types
<1>2. NoRule \in RuleRows
  BY <1>1 DEF NoRule, RuleRows
<1>3. NoCall \in Calls
  BY Bounds DEF NoCall, Calls, SourceKinds, Automation
<1>4. ASSUME NEW s \in RuleShapes, NEW t \in Templates \cup {None}
      PROVE  NewRule(s, t) \in RuleRows
  BY DEF NewRule, RuleRows
<1>5. QED
  BY <1>1, <1>2, <1>3, <1>4

\* An emission between the look at a rule and the end of its alert holds a rule.
Handy == \A e \in Events : pc[e] \in {"stamp", "alert", "escalate"} => cur[e] \in Rules

TInv == TypeOK /\ Handy

LEMMA TypeInit == Init => TInv
<1> SUFFICES ASSUME Init PROVE TInv
  OBVIOUS
<1>1. rule \in [Rules -> RuleRows]
  BY ShapeTypes, Bounds DEF Init
<1>2. /\ seen \in [Events -> [Rules -> RuleRows]] /\ about \in [Events -> Calls]
  BY ShapeTypes DEF Init
<1>3. /\ now \in Times /\ edits \in 0..MaxEdits /\ faults \in 0..MaxFaults
      /\ pc \in [Events -> Steps] /\ todo \in [Events -> SUBSET Rules]
      /\ cur \in [Events -> Rules \cup {None}] /\ at \in [Events -> Times]
      /\ request \in [Requests -> Requested]
  BY Bounds DEF Init, Times, Steps, Requested
<1>4. Handy
  BY DEF Init, Handy
<1>5. QED
  BY <1>1, <1>2, <1>3, <1>4 DEF TInv, TypeOK, Init

LEMMA TypeStamp ==
  ASSUME TInv, NEW e \in Events, Stamp(e)
  PROVE  TInv'
<1> DEFINE r == cur[e]
           f == [rule |-> r, by |-> e, at |-> at[e], cooldown |-> seen[e][r].shape.cooldown]
<1>1. r \in Rules /\ rule[r] \in RuleRows /\ seen[e][r] \in RuleRows /\ at[e] \in Times
  BY DEF TInv, TypeOK, Handy, Stamp
<1>2. pc' \in [Events -> Steps] /\ todo' \in [Events -> SUBSET Rules] /\ Handy'
  <2>1. CASE rule[r].state = "live"
    BY <1>1, <2>1 DEF TInv, TypeOK, Handy, Stamp, Steps
  <2>2. CASE rule[r].state # "live"
    BY <1>1, <2>2 DEF TInv, TypeOK, Handy, Stamp, Steps
  <2>3. QED
    BY <2>1, <2>2
<1>3. rule' \in [Rules -> RuleRows]
  <2>1. [rule[r] EXCEPT !.last = at[e]] \in RuleRows
    BY <1>1 DEF RuleRows
  <2>2. rule' = [rule EXCEPT ![r] = [rule[r] EXCEPT !.last = at[e]]] \/ rule' = rule
    BY DEF Stamp
  <2>3. QED
    BY <2>1, <2>2 DEF TInv, TypeOK
<1>4. fired' \subseteq [rule : Rules, by : Events, at : Times, cooldown : Nat]
  <2>1. f \in [rule : Rules, by : Events, at : Times, cooldown : Nat]
    BY <1>1 DEF RuleRows, RuleShapes
  <2>2. fired' = fired \cup {f} \/ fired' = fired
    BY DEF Stamp
  <2>3. QED
    BY <2>1, <2>2 DEF TInv, TypeOK
<1>5. contended' \subseteq Rules
  BY <1>1 DEF TInv, TypeOK, Stamp
<1>6. QED
  BY <1>2, <1>3, <1>4, <1>5 DEF TInv, TypeOK, Stamp

LEMMA TypeLook ==
  ASSUME TInv, NEW e \in Events, NEW r \in Rules, Look(e, r)
  PROVE  TInv'
<1>1. todo' \in [Events -> SUBSET Rules]
  BY DEF TInv, TypeOK, Look
<1>2. /\ pc' \in [Events -> Steps] /\ cur' \in [Events -> Rules \cup {None}]
      /\ at' \in [Events -> Times] /\ Handy'
  <2>1. CASE UNCHANGED <<pc, cur, at>>
    BY <2>1 DEF TInv, TypeOK, Handy
  <2>2. CASE /\ pc' = [pc EXCEPT ![e] = "stamp"] /\ cur' = [cur EXCEPT ![e] = r]
             /\ at' = [at EXCEPT ![e] = now]
    BY <2>2 DEF TInv, TypeOK, Handy, Steps
  <2>3. QED
    BY <2>1, <2>2 DEF Look
<1>3. QED
  BY <1>1, <1>2 DEF TInv, TypeOK, Look, history

\* The rest of an emission.
LEMMA TypeEmission ==
  ASSUME TInv, NEW e \in Events, Emit(e) \/ Evaluate(e) \/ Fail(e)
  PROVE  TInv'
<1>1. CASE Emit(e)
  <2>1. PICK s \in Sources, t \in Tenders, a \in Automations :
          /\ about' = [about EXCEPT ![e] = [src |-> s, tender |-> t, began |-> now, auto |-> a]]
          /\ pc' = [pc EXCEPT ![e] = IF s.type = "OTHER" THEN "queue" ELSE "load"]
    BY <1>1 DEF Emit
  <2>2. [src |-> s, tender |-> t, began |-> now, auto |-> a] \in Calls
    BY Bounds DEF TInv, TypeOK, Calls
  <2>3. about' \in [Events -> Calls] /\ pc' \in [Events -> Steps]
    BY <2>1, <2>2 DEF TInv, TypeOK, Steps
  <2>4. Handy'
    BY <1>1, <2>1 DEF TInv, TypeOK, Handy, Emit
  <2>5. QED
    BY <1>1, <2>3, <2>4 DEF TInv, TypeOK, Emit, history
<1>2. CASE Load(e)
  BY <1>2 DEF TInv, Handy, TypeOK, Load, history, Live, Steps
<1>3. ASSUME NEW r \in Rules, Look(e, r) PROVE TInv'
  BY <1>3, TypeLook
<1>4. CASE Stamp(e)
  BY <1>4, TypeStamp
<1>5. CASE EmitAlert(e)
  <2>1. cur[e] \in Rules
    BY <1>5 DEF TInv, Handy, EmitAlert
  <2>2. alerted' \subseteq Events \X Rules \X {"alert", "escalation"}
    BY <1>5, <2>1 DEF TInv, TypeOK, EmitAlert
  <2>3. /\ pc' \in [Events -> Steps] /\ cur' \in [Events -> Rules \cup {None}]
        /\ at' \in [Events -> Times] /\ Handy'
    <3>1. CASE about[e].auto = "escalating"
      BY <1>5, <2>1, <3>1 DEF TInv, TypeOK, Handy, EmitAlert, Steps
    <3>2. CASE about[e].auto # "escalating"
      <4>1. /\ pc' = [pc EXCEPT ![e] = "look"]
            /\ cur' = [cur EXCEPT ![e] = None] /\ at' = [at EXCEPT ![e] = 0]
        BY <1>5, <3>2 DEF EmitAlert, NextRule
      <4>2. QED
        BY <4>1, Bounds DEF TInv, TypeOK, Handy, Steps
    <3>3. QED
      BY <3>1, <3>2
  <2>4. QED
    BY <1>5, <2>2, <2>3 DEF TInv, TypeOK, EmitAlert
<1>6. CASE EmitEscalation(e)
  <2>1. cur[e] \in Rules
    BY <1>6 DEF TInv, Handy, EmitEscalation
  <2>2. alerted' \subseteq Events \X Rules \X {"alert", "escalation"}
    BY <1>6, <2>1 DEF TInv, TypeOK, EmitEscalation
  <2>3. QED
    BY <1>6, <2>2, Bounds DEF TInv, Handy, TypeOK, EmitEscalation, NextRule, Steps
<1>7. CASE EndLoop(e)
  BY <1>7 DEF TInv, Handy, TypeOK, EndLoop, history, evaluation, Steps
<1>8. CASE Queue(e)
  BY <1>8, ShapeTypes DEF TInv, Handy, TypeOK, Queue, history, Steps
<1>9. CASE Fail(e)
  BY <1>9, Bounds DEF TInv, Handy, TypeOK, Fail, Steps
<1>10. QED
  BY <1>1, <1>2, <1>3, <1>4, <1>5, <1>6, <1>7, <1>8, <1>9 DEF Evaluate

\* Administration and time: a rule comes into being, is edited or is deleted for
\* good, and its stamp is left alone.
Admin ==
  \/ \E r \in Rules : EditRule(r) \/ DeleteRule(r)
  \/ \E q \in Requests :
       \/ CountRules(q)
       \/ \E t \in Templates : FindTemplate(q, t)
       \/ \E r \in Rules : CreateRule(q, r)
  \/ Tick

Administered ==
  /\ UNCHANGED <<pc, evaluation, history>>
  /\ now' \in Times /\ now' >= now
  /\ \A r \in Rules :
       \/ rule'[r] = rule[r]
       \/ rule[r].state = "none" /\ rule'[r].state = "live" /\ rule'[r].last = Never
       \/ /\ rule[r].state = "live" /\ rule'[r].state \in {"live", "deleted"}
          /\ rule'[r].last = rule[r].last

LEMMA NowStays == TInv => now \in Times /\ now >= now
  BY DEF TInv, TypeOK, Times

\* A rule is written.
LEMMA Written ==
  ASSUME TInv, NEW r \in Rules, NEW x \in RuleRows, rule' = [rule EXCEPT ![r] = x],
         UNCHANGED <<now, pc, evaluation, history>>,
         edits' \in 0..MaxEdits, faults' = faults, request' \in [Requests -> Requested],
         \/ rule[r].state = "none" /\ x.state = "live" /\ x.last = Never
         \/ rule[r].state = "live" /\ x.state \in {"live", "deleted"} /\ x.last = rule[r].last
  PROVE  TInv' /\ Administered
<1>1. rule' \in [Rules -> RuleRows]
  BY DEF TInv, TypeOK
<1>2. TInv'
  BY <1>1 DEF TInv, TypeOK, Handy, evaluation, history
<1>3. \A y \in Rules : rule'[y] = IF y = r THEN x ELSE rule[y]
  BY DEF TInv, TypeOK
<1>4. QED
  BY <1>2, <1>3, NowStays DEF Administered

LEMMA AdminEffect ==
  ASSUME TInv, Admin
  PROVE  TInv' /\ Administered
<1>0. /\ edits + 1 \in 0..MaxEdits \/ ~(edits < MaxEdits)
      /\ now + 1 \in Times \/ ~(now < MaxTime)
      /\ rule \in [Rules -> RuleRows] /\ request \in [Requests -> Requested]
      /\ edits \in 0..MaxEdits
  BY Bounds DEF TInv, TypeOK, Times
<1>1. ASSUME NEW r \in Rules, EditRule(r) PROVE TInv' /\ Administered
  <2>1. PICK s \in Shapes \cup {rule[r].shape}, b \in BOOLEAN, t \in {rule[r].template, None} :
          rule' = [rule EXCEPT ![r] = [@ EXCEPT !.shape = s, !.on = b, !.template = t]]
    BY <1>1 DEF EditRule
  <2> DEFINE x == [rule[r] EXCEPT !.shape = s, !.on = b, !.template = t]
  <2>2. rule[r] \in RuleRows /\ rule[r].state = "live"
    BY <1>0, <1>1 DEF EditRule, Live
  <2>3. s \in RuleShapes /\ t \in Templates \cup {None}
    BY <2>1, <2>2, Bounds DEF RuleRows
  <2>4. x \in RuleRows /\ x.state = "live" /\ x.last = rule[r].last
    BY <2>2, <2>3 DEF RuleRows
  <2>5. rule' = [rule EXCEPT ![r] = x]
    BY <2>1
  <2> HIDE DEF x
  <2>6. /\ UNCHANGED <<now, pc, evaluation, history>> /\ edits' \in 0..MaxEdits
        /\ faults' = faults /\ request' \in [Requests -> Requested]
    BY <1>0, <1>1 DEF EditRule
  <2>7. QED
    BY <2>2, <2>4, <2>5, <2>6, Written
<1>2. ASSUME NEW r \in Rules, DeleteRule(r) PROVE TInv' /\ Administered
  <2> DEFINE x == [rule[r] EXCEPT !.state = "deleted"]
  <2>1. rule[r] \in RuleRows /\ rule[r].state = "live"
    BY <1>0, <1>2 DEF DeleteRule, Live
  <2>2. x \in RuleRows /\ x.state = "deleted" /\ x.last = rule[r].last
    BY <2>1 DEF RuleRows
  <2>3. rule' = [rule EXCEPT ![r] = x]
    BY <1>2 DEF DeleteRule
  <2> HIDE DEF x
  <2>4. /\ UNCHANGED <<now, pc, evaluation, history>> /\ edits' \in 0..MaxEdits
        /\ faults' = faults /\ request' \in [Requests -> Requested]
    BY <1>0, <1>2 DEF DeleteRule
  <2>5. QED
    BY <2>1, <2>2, <2>3, <2>4, Written
<1>3. ASSUME NEW q \in Requests, CountRules(q) PROVE TInv' /\ Administered
  <2>1. request' \in [Requests -> Requested]
    <3>1. PICK p \in {"counted", "done"} : request' = [request EXCEPT ![q].pc = p]
      BY <1>3 DEF CountRules
    <3>2. [request[q] EXCEPT !.pc = p] \in Requested
      BY <1>0 DEF Requested
    <3>3. QED
      BY <1>0, <3>1, <3>2
  <2>2. QED
    BY <1>3, <2>1, NowStays DEF CountRules, TInv, TypeOK, Handy, Administered, evaluation, history
<1>4. ASSUME NEW q \in Requests, NEW t \in Templates, FindTemplate(q, t)
      PROVE  TInv' /\ Administered
  <2>1. request' \in [Requests -> Requested]
    BY <1>0, <1>4 DEF FindTemplate, Requested
  <2>2. QED
    BY <1>4, <2>1, NowStays DEF FindTemplate, TInv, TypeOK, Handy, Administered, evaluation, history
<1>5. ASSUME NEW q \in Requests, NEW r \in Rules, CreateRule(q, r)
      PROVE  TInv' /\ Administered
  <2>1. request[q] \in Requested /\ rule[r].state = "none"
    BY <1>0, <1>5 DEF CreateRule
  <2>2. PICK s \in RuleShapes, t \in Templates \cup {None} :
          rule' = [rule EXCEPT ![r] = NewRule(s, t)]
    BY <1>5, <2>1, ShapeTypes, Bounds DEF CreateRule, Requested
  <2>3. NewRule(s, t) \in RuleRows
    BY ShapeTypes
  <2>4. NewRule(s, t).state = "live" /\ NewRule(s, t).last = Never
    BY DEF NewRule
  <2>5. request' \in [Requests -> Requested]
    <3>1. [request[q] EXCEPT !.pc = "done"] \in Requested
      BY <2>1 DEF Requested
    <3>2. QED
      BY <1>0, <1>5, <3>1 DEF CreateRule
  <2>6. /\ UNCHANGED <<now, pc, evaluation, history>> /\ edits' \in 0..MaxEdits
        /\ faults' = faults
    BY <1>0, <1>5 DEF CreateRule
  <2>7. QED
    BY <2>1, <2>2, <2>3, <2>4, <2>5, <2>6, Written
<1>6. CASE Tick
  <2>1. now' \in Times /\ now' >= now
    BY <1>0, <1>6 DEF Tick, TInv, TypeOK, Times
  <2>2. QED
    BY <1>6, <2>1 DEF Tick, TInv, TypeOK, Handy, Administered, evaluation, history
<1>7. QED
  BY <1>1, <1>2, <1>3, <1>4, <1>5, <1>6 DEF Admin

LEMMA NextSplits == Next => Admin \/ \E e \in Events : Emit(e) \/ Evaluate(e) \/ Fail(e)
  BY DEF Next, Admin

LEMMA TypeStep == TInv /\ [Next]_vars => TInv'
<1> SUFFICES ASSUME TInv, [Next]_vars PROVE TInv'
  OBVIOUS
<1>1. CASE Admin
  BY <1>1, AdminEffect
<1>2. ASSUME NEW e \in Events, Emit(e) \/ Evaluate(e) \/ Fail(e) PROVE TInv'
  BY <1>2, TypeEmission
<1>3. CASE UNCHANGED vars
  BY <1>3 DEF TInv, TypeOK, Handy, vars, evaluation, history
<1>4. QED
  BY <1>1, <1>2, <1>3, NextSplits

\* Rows, evaluations and requests stay well typed.
THEOREM TypeCorrect == Spec => []TypeOK
<1>1. TInv => TypeOK
  BY DEF TInv
<1>2. QED
  BY <1>1, TypeInit, TypeStep, PTL DEF Spec

-----------------------------------------------------------------------------
(* What an evaluation has loaded, and which events are lost. *)

\* A rule in hand or still to look at was loaded live; the one about to be stamped
\* was not cooling and is looked at no more.
Loaded ==
  \A e \in Events :
    /\ pc[e] \in {"idle", "queue"} => todo[e] = {}
    /\ \A r \in todo[e] : seen[e][r].state = "live"
    /\ pc[e] = "stamp" => /\ seen[e][cur[e]].state = "live" /\ cur[e] \notin todo[e]
                          /\ ~Cooling(seen[e][cur[e]], at[e])

\* A rule that was loaded is there or was deleted.
Known ==
  /\ \A r \in Rules : rule[r].state = "none" => rule[r].last = Never
  /\ \A e \in Events, r \in Rules :
       seen[e][r].state = "live" => rule[r].state \in {"live", "deleted"}

LInv == TInv /\ Loaded /\ Known /\ LostOnlyByDelete

LEMMA LoadedInit == Init => LInv
<1> SUFFICES ASSUME Init PROVE LInv
  OBVIOUS
<1>1. TInv
  BY TypeInit
<1>2. Loaded
  BY DEF Init, Loaded
<1>3. Known
  BY DEF Init, Known, NoRule, NewRule
<1>4. LostOnlyByDelete
  BY DEF Init, LostOnlyByDelete
<1>5. QED
  BY <1>1, <1>2, <1>3, <1>4 DEF LInv

LEMMA LoadedAdmin ==
  ASSUME LInv, Administered
  PROVE  Loaded' /\ Known' /\ LostOnlyByDelete'
<1>0. UNCHANGED <<pc, about, seen, todo, cur, at, faulted>>
  BY DEF Administered, evaluation, history
<1>1. Loaded'
  BY <1>0 DEF LInv, Loaded, Cooling
<1>2. Known'
  BY <1>0 DEF LInv, Known, Administered
<1>3. LostOnlyByDelete'
  BY <1>0 DEF LInv, LostOnlyByDelete, Administered
<1>4. QED
  BY <1>1, <1>2, <1>3

LEMMA LoadedStamp ==
  ASSUME LInv, NEW e \in Events, Stamp(e)
  PROVE  Loaded' /\ Known' /\ LostOnlyByDelete'
<1> DEFINE r == cur[e]
<1>0. /\ r \in Rules /\ rule[r] \in RuleRows /\ pc[e] = "stamp" /\ seen[e][r].state = "live"
      /\ pc \in [Events -> Steps] /\ todo \in [Events -> SUBSET Rules]
      /\ rule \in [Rules -> RuleRows]
  BY DEF LInv, TInv, TypeOK, Handy, Stamp, Loaded
<1>1. Loaded'
  <2>1. CASE rule[r].state = "live"
    BY <1>0, <2>1 DEF LInv, Loaded, Stamp, Cooling
  <2>2. CASE rule[r].state # "live"
    BY <1>0, <2>2 DEF LInv, Loaded, Stamp, Cooling
  <2>3. QED
    BY <2>1, <2>2
<1>2. \A x \in Rules : rule'[x].state = rule[x].state
  BY <1>0 DEF Stamp, RuleRows
<1>3. \A x \in Rules : rule'[x] = rule[x] \/ rule[x].state = "live"
  BY <1>0 DEF Stamp
<1>4. Known'
  BY <1>2, <1>3 DEF LInv, Known, Stamp
<1>5. LostOnlyByDelete'
  <2>1. CASE rule[r].state = "live"
    BY <1>0, <1>2, <2>1 DEF LInv, LostOnlyByDelete, Stamp
  <2>2. CASE rule[r].state # "live"
    <3>1. rule[r].state = "deleted"
      BY <1>0, <2>2 DEF LInv, Known
    <3>2. QED
      BY <1>0, <1>2, <2>2, <3>1 DEF LInv, LostOnlyByDelete, Stamp
  <2>3. QED
    BY <2>1, <2>2
<1>6. QED
  BY <1>1, <1>4, <1>5

LEMMA LoadedEmission ==
  ASSUME LInv, NEW e \in Events, Emit(e) \/ Evaluate(e) \/ Fail(e)
  PROVE  Loaded' /\ Known' /\ LostOnlyByDelete'
<1>0. /\ pc \in [Events -> Steps] /\ todo \in [Events -> SUBSET Rules]
      /\ seen \in [Events -> [Rules -> RuleRows]] /\ rule \in [Rules -> RuleRows]
      /\ cur \in [Events -> Rules \cup {None}] /\ at \in [Events -> Times]
      /\ faulted \subseteq Events
  BY DEF LInv, TInv, TypeOK
<1>1. CASE Emit(e)
  <2>1. \E p \in {"queue", "load"} : pc' = [pc EXCEPT ![e] = p]
    BY <1>1 DEF Emit
  <2>2. QED
    BY <1>0, <1>1, <2>1 DEF LInv, Loaded, Known, LostOnlyByDelete, Emit, Cooling, history
<1>2. CASE Load(e)
  <2>1. Loaded'
    BY <1>0, <1>2 DEF LInv, Loaded, Load, Live, Cooling
  <2>2. Known'
    BY <1>0, <1>2 DEF LInv, Known, Load
  <2>3. LostOnlyByDelete'
    BY <1>0, <1>2 DEF LInv, LostOnlyByDelete, Load, history
  <2>4. QED
    BY <2>1, <2>2, <2>3
<1>3. ASSUME NEW r \in Rules, Look(e, r) PROVE Loaded' /\ Known' /\ LostOnlyByDelete'
  <2>1. CASE UNCHANGED <<pc, cur, at>>
    BY <1>0, <1>3, <2>1 DEF LInv, Loaded, Known, LostOnlyByDelete, Look, Cooling, history
  <2>2. CASE /\ ~Cooling(seen[e][r], now) /\ pc' = [pc EXCEPT ![e] = "stamp"]
             /\ cur' = [cur EXCEPT ![e] = r] /\ at' = [at EXCEPT ![e] = now]
    <3>1. Loaded'
      BY <1>0, <1>3, <2>2 DEF LInv, Loaded, Look, Cooling
    <3>2. Known' /\ LostOnlyByDelete'
      BY <1>0, <1>3, <2>2 DEF LInv, Known, LostOnlyByDelete, Look, history
    <3>3. QED
      BY <3>1, <3>2
  <2>3. QED
    BY <1>3, <2>1, <2>2 DEF Look
<1>4. CASE Stamp(e)
  BY <1>4, LoadedStamp
<1>5. ASSUME NEW p \in {"look", "escalate"}, pc[e] # "failed", pc' = [pc EXCEPT ![e] = p],
             UNCHANGED <<rule, seen, todo, faulted>>,
             \A x \in Events \ {e} : cur'[x] = cur[x] /\ at'[x] = at[x]
      PROVE  Loaded' /\ Known' /\ LostOnlyByDelete'
  BY <1>0, <1>5 DEF LInv, Loaded, Known, LostOnlyByDelete, Cooling
<1>6. CASE EmitAlert(e)
  <2>1. \E p \in {"look", "escalate"} : pc' = [pc EXCEPT ![e] = p]
    BY <1>6 DEF EmitAlert, NextRule
  <2>2. \A x \in Events \ {e} : cur'[x] = cur[x] /\ at'[x] = at[x]
    BY <1>0, <1>6 DEF EmitAlert, NextRule
  <2>3. QED
    BY <1>5, <1>6, <2>1, <2>2 DEF EmitAlert
<1>7. CASE EmitEscalation(e)
  <2>1. \A x \in Events \ {e} : cur'[x] = cur[x] /\ at'[x] = at[x]
    BY <1>0, <1>7 DEF EmitEscalation, NextRule
  <2>2. QED
    BY <1>5, <1>7, <2>1 DEF EmitEscalation, NextRule
<1>8. CASE EndLoop(e)
  BY <1>0, <1>8 DEF LInv, Loaded, Known, LostOnlyByDelete, EndLoop, Cooling, evaluation, history
<1>9. CASE Queue(e)
  <2>1. \A r \in Rules : seen'[e][r].state = "none"
    BY <1>0, <1>9 DEF Queue, NoRule
  <2>2. \A x \in Events \ {e} : seen'[x] = seen[x]
    BY <1>0, <1>9 DEF Queue
  <2>3. todo[e] = {}
    BY <1>9 DEF LInv, Loaded, Queue
  <2>4. Loaded'
    BY <1>0, <1>9, <2>2, <2>3 DEF LInv, Loaded, Queue, Cooling
  <2>5. Known' /\ LostOnlyByDelete'
    BY <1>0, <1>9, <2>1, <2>2 DEF LInv, Known, LostOnlyByDelete, Queue, history
  <2>6. QED
    BY <2>4, <2>5
<1>10. CASE Fail(e)
  BY <1>0, <1>10 DEF LInv, Loaded, Known, LostOnlyByDelete, Fail, Cooling
<1>11. QED
  BY <1>1, <1>2, <1>3, <1>4, <1>6, <1>7, <1>8, <1>9, <1>10 DEF Evaluate

LEMMA LoadedStep == LInv /\ [Next]_vars => LInv'
<1> SUFFICES ASSUME LInv, [Next]_vars PROVE LInv'
  OBVIOUS
<1>0. TInv'
  BY TypeStep DEF LInv
<1>1. CASE Admin
  BY <1>0, <1>1, AdminEffect, LoadedAdmin DEF LInv
<1>2. ASSUME NEW e \in Events, Emit(e) \/ Evaluate(e) \/ Fail(e) PROVE LInv'
  BY <1>0, <1>2, LoadedEmission DEF LInv
<1>3. CASE UNCHANGED vars
  BY <1>0, <1>3 DEF LInv, Loaded, Known, LostOnlyByDelete, Cooling, vars, evaluation, history
<1>4. QED
  BY <1>1, <1>2, <1>3, NextSplits

\* An event loses its deliveries only if a call threw or a rule it had loaded was
\* deleted.
THEOREM EventsAreLostOnlyByDelete == Spec => []LostOnlyByDelete
<1>1. LInv => LostOnlyByDelete
  BY DEF LInv
<1>2. QED
  BY <1>1, LoadedInit, LoadedStep, PTL DEF Spec

-----------------------------------------------------------------------------
(* The cooldown. *)

\* Outside contention the stamp of a rule is its latest, and whoever holds the rule
\* has read that stamp.
Fresh ==
  \A r \in Rules \ contended :
    /\ \A g \in fired : g.rule = r => rule[r].last \in Nat /\ g.at <= rule[r].last
    /\ \A e \in Events : Holds(e, r) => seen[e][r].last = rule[r].last

CInv == LInv /\ Fresh

\* A step that neither stamps nor takes a rule up.
LEMMA FreshStays ==
  ASSUME CInv, TInv', UNCHANGED <<fired, contended>>,
         \A r \in Rules : rule'[r].last = rule[r].last,
         \A e \in Events, r \in Rules :
           Holds(e, r)' => Holds(e, r) /\ seen'[e][r].last = seen[e][r].last
  PROVE  Fresh'
  BY DEF CInv, Fresh

LEMMA FreshAdmin ==
  ASSUME CInv, TInv', Administered
  PROVE  Fresh'
<1>0. /\ UNCHANGED <<pc, seen, todo, cur, fired, contended>>
      /\ \A e \in Events, r \in Rules : Holds(e, r)' <=> Holds(e, r)
  BY DEF Administered, evaluation, history, Holds
<1>1. SUFFICES ASSUME NEW r \in Rules \ contended
               PROVE  /\ \A g \in fired : g.rule = r =>
                            rule'[r].last \in Nat /\ g.at <= rule'[r].last
                      /\ \A e \in Events : Holds(e, r) => seen[e][r].last = rule'[r].last
  BY <1>0 DEF Fresh
<1>2. rule'[r].last = rule[r].last
  BY DEF Administered, CInv, LInv, Known
<1>3. QED
  BY <1>2 DEF CInv, Fresh

\* A stamp comes after the cooldown of the stamp it has read.
LEMMA Stamped ==
  ASSUME CInv, NEW e \in Events, Stamp(e), NEW f \in fired' \ fired, f.rule \notin contended'
  PROVE  /\ f.rule = cur[e] /\ f.at = at[e]
         /\ \A g \in fired : g.rule = f.rule => f.at >= g.at + f.cooldown
<1> DEFINE r == cur[e]
           c == seen[e][r].shape.cooldown
<1>1. /\ rule[r].state = "live" /\ f = [rule |-> r, by |-> e, at |-> at[e], cooldown |-> c]
      /\ r \in Rules /\ r \notin contended'
  <2>1. rule[r].state = "live"
    BY DEF Stamp
  <2>2. fired' = fired \cup {[rule |-> r, by |-> e, at |-> at[e], cooldown |-> c]}
    BY <2>1 DEF Stamp
  <2>3. r \in Rules
    BY DEF CInv, LInv, TInv, Handy, Stamp
  <2>4. QED
    BY <2>1, <2>2, <2>3
<1>2. r \notin contended
  BY <1>1 DEF Stamp
<1>3. seen[e][r].last = rule[r].last
  BY <1>1, <1>2 DEF CInv, Fresh, Holds, Stamp
<1>4. ~Cooling(seen[e][r], at[e])
  BY DEF CInv, LInv, Loaded, Stamp
<1>5. c \in Nat /\ at[e] \in Nat /\ \A g \in fired : g.at \in Nat
  BY <1>1 DEF CInv, LInv, TInv, TypeOK, RuleRows, RuleShapes, Times
<1>6. ASSUME NEW g \in fired, g.rule = r PROVE at[e] >= g.at + c
  <2>1. rule[r].last \in Nat /\ g.at <= rule[r].last
    BY <1>1, <1>2, <1>6 DEF CInv, Fresh
  <2>2. ~(rule[r].last + c > at[e])
    BY <1>3, <1>4, <2>1, Bounds DEF Cooling
  <2>3. QED
    BY <1>5, <2>1, <2>2
<1>7. QED
  BY <1>1, <1>6

LEMMA FreshStamp ==
  ASSUME CInv, NEW e \in Events, Stamp(e)
  PROVE  Fresh'
<1>r. PICK r \in Rules : r = cur[e]
  BY DEF CInv, LInv, TInv, Handy, Stamp
<1>0. /\ r \in Rules /\ pc[e] = "stamp" /\ r \notin todo[e]
      /\ pc \in [Events -> Steps] /\ rule \in [Rules -> RuleRows] /\ at[e] \in Nat
      /\ todo \in [Events -> SUBSET Rules] /\ UNCHANGED <<seen, cur>>
      /\ \A g \in fired : g.at \in Nat
      /\ rule[r] \in RuleRows
  BY <1>r DEF CInv, LInv, TInv, TypeOK, Handy, Stamp, Loaded, Times
<1>1. CASE rule[r].state # "live"
  <2>1. \A o \in Events, x \in Rules : Holds(o, x)' => Holds(o, x)
    BY <1>0, <1>1, <1>r DEF Holds, Stamp
  <2>2. UNCHANGED <<rule, seen, fired, contended>>
    BY <1>1, <1>r DEF Stamp
  <2>3. QED
    BY <2>1, <2>2 DEF CInv, Fresh
<1>2. CASE rule[r].state = "live"
  <2> DEFINE f == [rule |-> r, by |-> e, at |-> at[e], cooldown |-> seen[e][r].shape.cooldown]
  <2>1. /\ rule' = [rule EXCEPT ![r].last = at[e]] /\ fired' = fired \cup {f}
        /\ pc' = [pc EXCEPT ![e] = "alert"] /\ UNCHANGED todo
        /\ contended \subseteq contended'
        /\ r \notin contended' => \A o \in Events \ {e} : ~Holds(o, r)
    BY <1>2, <1>r DEF Stamp
  <2>2. \A x \in Rules \ {r} : rule'[x] = rule[x]
    BY <1>0, <2>1
  <2>3. rule'[r].last = at[e]
    BY <1>0, <2>1 DEF RuleRows
  <2>4. \A o \in Events, x \in Rules : Holds(o, x)' => Holds(o, x) /\ <<o, x>> # <<e, r>>
    BY <1>0, <1>r, <2>1 DEF Holds
  <2>5. ASSUME NEW x \in Rules \ contended', x # r
        PROVE  /\ \A g \in fired' : g.rule = x => rule'[x].last \in Nat /\ g.at <= rule'[x].last
               /\ \A o \in Events : Holds(o, x)' => seen'[o][x].last = rule'[x].last
    <3>1. \A g \in fired' : g.rule = x => g \in fired
      BY <2>1, <2>5
    <3>2. x \in Rules \ contended /\ rule'[x] = rule[x]
      BY <2>1, <2>2, <2>5
    <3>3. QED
      BY <1>0, <2>4, <3>1, <3>2 DEF CInv, Fresh
  <2>6. ASSUME r \notin contended'
        PROVE  /\ \A g \in fired' : g.rule = r => rule'[r].last \in Nat /\ g.at <= rule'[r].last
               /\ \A o \in Events : Holds(o, r)' => seen'[o][r].last = rule'[r].last
    <3>1. ASSUME NEW g \in fired', g.rule = r PROVE g.at <= at[e]
      <4>1. CASE g = f
        BY <1>0, <4>1
      <4>2. CASE g \in fired /\ f \in fired
        <5>1. rule[r].last \in Nat /\ g.at <= rule[r].last
          BY <1>0, <2>1, <2>6, <3>1, <4>2 DEF CInv, Fresh
        <5>2. seen[e][r].last = rule[r].last /\ ~Cooling(seen[e][r], at[e])
          BY <1>0, <1>r, <2>1, <2>6 DEF CInv, LInv, Loaded, Fresh, Holds
        <5>3. seen[e][r].shape.cooldown \in Nat
          BY <1>0 DEF CInv, LInv, TInv, TypeOK, RuleRows, RuleShapes
        <5>4. ~(rule[r].last + seen[e][r].shape.cooldown > at[e])
          BY <5>1, <5>2, Bounds DEF Cooling
        <5>5. QED
          BY <1>0, <4>2, <5>1, <5>3, <5>4
      <4>3. CASE g \in fired /\ f \notin fired
        <5>1. f \in fired' \ fired /\ f.rule = r /\ f.at = at[e]
          BY <2>1, <4>3
        <5>2. at[e] >= g.at + f.cooldown
          BY <2>6, <3>1, <4>3, <5>1, Stamped
        <5>3. f.cooldown \in Nat
          BY <1>0 DEF CInv, LInv, TInv, TypeOK, RuleRows, RuleShapes
        <5>4. QED
          BY <1>0, <4>3, <5>2, <5>3
      <4>4. QED
        BY <2>1, <4>1, <4>2, <4>3
    <3>2. \A o \in Events : ~Holds(o, r)'
      BY <1>0, <2>1, <2>4, <2>6
    <3>3. QED
      BY <1>0, <2>3, <3>1, <3>2
  <2>7. ASSUME NEW x \in Rules \ contended'
        PROVE  /\ \A g \in fired' : g.rule = x => rule'[x].last \in Nat /\ g.at <= rule'[x].last
               /\ \A o \in Events : Holds(o, x)' => seen'[o][x].last = rule'[x].last
    <3>1. CASE x = r
      BY <2>6, <2>7, <3>1
    <3>2. CASE x # r
      BY <2>5, <2>7, <3>2
    <3>3. QED
      BY <3>1, <3>2
  <2>8. QED
    BY <2>7 DEF Fresh
<1>3. QED
  BY <1>1, <1>2

LEMMA FreshEmission ==
  ASSUME CInv, NEW e \in Events, Emit(e) \/ Evaluate(e) \/ Fail(e)
  PROVE  Fresh'
<1>0. /\ pc \in [Events -> Steps] /\ todo \in [Events -> SUBSET Rules]
      /\ seen \in [Events -> [Rules -> RuleRows]]
      /\ cur \in [Events -> Rules \cup {None}] /\ TInv'
  BY TypeEmission DEF CInv, LInv, TInv, TypeOK
<1>1. CASE Load(e)
  <2>1. \A o \in Events \ {e}, r \in Rules :
          (Holds(o, r)' <=> Holds(o, r)) /\ seen'[o][r] = seen[o][r]
    BY <1>0, <1>1 DEF Holds, Load
  <2>2. seen'[e] = rule
    BY <1>0, <1>1 DEF Load
  <2>3. UNCHANGED <<rule, fired, contended>>
    BY <1>1 DEF Load, history
  <2>4. QED
    BY <2>1, <2>2, <2>3 DEF CInv, Fresh
<1>2. ASSUME NEW r \in Rules, Look(e, r) PROVE Fresh'
  <2>1. \A o \in Events, x \in Rules : Holds(o, x)' => Holds(o, x)
    <3>1. CASE UNCHANGED <<pc, cur, at>>
      BY <1>0, <1>2, <3>1 DEF Holds, Look
    <3>2. CASE pc' = [pc EXCEPT ![e] = "stamp"] /\ cur' = [cur EXCEPT ![e] = r]
      BY <1>0, <1>2, <3>2 DEF Holds, Look
    <3>3. QED
      BY <1>2, <3>1, <3>2 DEF Look
  <2>2. UNCHANGED <<rule, seen, fired, contended>>
    BY <1>2 DEF Look, history
  <2>3. QED
    BY <1>0, <2>1, <2>2, FreshStays
<1>3. CASE Stamp(e)
  BY <1>3, FreshStamp
<1>4. ASSUME UNCHANGED <<rule, fired, contended>>,
             \A o \in Events : todo'[o] \subseteq todo[o],
             \A o \in Events : pc'[o] = "stamp" => pc[o] = "stamp" /\ cur'[o] = cur[o],
             \A o \in Events : seen'[o] = seen[o] \/ (pc'[o] # "stamp" /\ todo'[o] = {})
      PROVE  Fresh'
  <2>1. \A o \in Events, x \in Rules :
          Holds(o, x)' => Holds(o, x) /\ seen'[o][x].last = seen[o][x].last
    BY <1>4 DEF Holds
  <2>2. QED
    BY <1>0, <1>4, <2>1, FreshStays
<1>5. CASE Emit(e)
  BY <1>0, <1>4, <1>5 DEF Emit, history
<1>6. CASE EmitAlert(e)
  BY <1>0, <1>4, <1>6 DEF EmitAlert, NextRule
<1>7. CASE EmitEscalation(e)
  BY <1>0, <1>4, <1>7 DEF EmitEscalation, NextRule
<1>8. CASE EndLoop(e)
  BY <1>0, <1>4, <1>8 DEF EndLoop, evaluation, history
<1>9. CASE Queue(e)
  <2>1. todo[e] = {}
    BY <1>9 DEF CInv, LInv, Loaded, Queue
  <2>2. QED
    BY <1>0, <1>4, <1>9, <2>1 DEF Queue, history
<1>10. CASE Fail(e)
  BY <1>0, <1>4, <1>10 DEF Fail
<1>11. QED
  BY <1>1, <1>2, <1>3, <1>5, <1>6, <1>7, <1>8, <1>9, <1>10 DEF Evaluate

LEMMA FreshInit == Init => CInv
<1> SUFFICES ASSUME Init PROVE CInv
  OBVIOUS
<1>1. LInv
  BY LoadedInit
<1>2. Fresh
  BY DEF Init, Fresh, Holds
<1>3. QED
  BY <1>1, <1>2 DEF CInv

LEMMA FreshStep == CInv /\ [Next]_vars => CInv'
<1> SUFFICES ASSUME CInv, [Next]_vars PROVE CInv'
  OBVIOUS
<1>0. LInv' /\ TInv' /\ LInv /\ TInv
  BY LoadedStep DEF CInv, LInv
<1>1. CASE Admin
  BY <1>0, <1>1, AdminEffect, FreshAdmin DEF CInv
<1>2. ASSUME NEW e \in Events, Emit(e) \/ Evaluate(e) \/ Fail(e) PROVE CInv'
  BY <1>0, <1>2, FreshEmission DEF CInv
<1>3. CASE UNCHANGED vars
  BY <1>0, <1>3 DEF CInv, Fresh, Holds, vars, evaluation, history
<1>4. QED
  BY <1>1, <1>2, <1>3, NextSplits

\* Only a stamp adds to fired.
LEMMA OnlyStamps ==
  ASSUME TInv, [Next]_vars, fired' # fired
  PROVE  \E e \in Events : Stamp(e)
<1>1. CASE Admin
  BY <1>1, AdminEffect DEF Administered, history
<1>2. ASSUME NEW e \in Events, Emit(e) \/ Evaluate(e) \/ Fail(e), ~Stamp(e) PROVE FALSE
  BY <1>2 DEF Evaluate, Emit, Load, Look, EmitAlert, EmitEscalation, EndLoop, Queue, Fail, history
<1>3. CASE UNCHANGED vars
  BY <1>3 DEF vars, history
<1>4. QED
  BY <1>1, <1>2, <1>3, NextSplits

\* A rule does not fire again within its cooldown, unless it was stamped while another
\* evaluation held it.
THEOREM CooldownsAreKept == Spec => CooldownKept
<1> DEFINE Kept == \A f \in fired' \ fired, g \in fired :
             f.rule = g.rule => f.at >= g.at + f.cooldown \/ f.rule \in contended'
<1>1. CInv /\ [Next]_vars => [Kept]_vars
  <2> SUFFICES ASSUME CInv, [Next]_vars PROVE Kept
    OBVIOUS
  <2>1. CASE fired' = fired
    BY <2>1
  <2>2. CASE fired' # fired
    <3>1. PICK e \in Events : Stamp(e)
      BY <2>2, OnlyStamps DEF CInv, LInv
    <3>2. QED
      BY <3>1, Stamped
  <2>3. QED
    BY <2>1, <2>2
<1>2. QED
  BY <1>1, FreshInit, FreshStep, PTL DEF Spec, CooldownKept

-----------------------------------------------------------------------------
(* The alerts an event is due. *)

\* Past its load, e is due an alert of r.
Owes(e, r) ==
  /\ pc[e] \in {"look", "stamp", "alert", "escalate", "queue"} /\ about[e].src.type # "OTHER"
  /\ seen[e][r].state = "live" /\ seen[e][r].on
  /\ Applies(seen[e][r].shape, about[e]) /\ ~Cooling(seen[e][r], about[e].began)

Alerted(e, r) ==
  /\ <<e, r, "alert">> \in alerted
  /\ about[e].auto = "escalating" => <<e, r, "escalation">> \in alerted

\* It has it, or r is still in the evaluation's hands.
Pays(e, r) ==
  \/ r \in todo[e] \/ Alerted(e, r)
  \/ cur[e] = r /\ pc[e] \in {"stamp", "alert"}
  \/ cur[e] = r /\ pc[e] = "escalate" /\ <<e, r, "alert">> \in alerted

Paying ==
  /\ \A e \in Events : about[e].began <= now
  /\ \A e \in Events, r \in Rules : Owes(e, r) => Pays(e, r)

AInv == LInv /\ Paying

LEMMA PayingInit == Init => AInv
<1> SUFFICES ASSUME Init PROVE AInv
  OBVIOUS
<1>1. LInv
  BY LoadedInit
<1>2. Paying
  BY DEF Init, Paying, Owes, NoCall
<1>3. QED
  BY <1>1, <1>2 DEF AInv

\* Another emission's debts are not touched.
LEMMA OthersPay ==
  ASSUME AInv, NEW e \in Events, alerted \subseteq alerted',
         \A o \in Events \ {e} : /\ pc'[o] = pc[o] /\ about'[o] = about[o] /\ seen'[o] = seen[o]
                                /\ todo'[o] = todo[o] /\ cur'[o] = cur[o],
         now' = now, about'[e].began <= now,
         \A r \in Rules : Owes(e, r)' => Pays(e, r)'
  PROVE  Paying'
<1>1. ASSUME NEW o \in Events \ {e}, NEW r \in Rules, Owes(o, r)' PROVE Pays(o, r)'
  <2>1. Owes(o, r)
    BY <1>1 DEF Owes, Applies, InScope, Cooling
  <2>2. Pays(o, r)
    BY <2>1 DEF AInv, Paying
  <2>3. QED
    BY <2>2 DEF Pays, Alerted
<1>2. QED
  BY <1>1 DEF AInv, Paying

LEMMA PayingEmission ==
  ASSUME AInv, NEW e \in Events, Emit(e) \/ Evaluate(e) \/ Fail(e)
  PROVE  Paying'
<1>0. /\ pc \in [Events -> Steps] /\ todo \in [Events -> SUBSET Rules]
      /\ seen \in [Events -> [Rules -> RuleRows]] /\ rule \in [Rules -> RuleRows]
      /\ cur \in [Events -> Rules \cup {None}] /\ about \in [Events -> Calls]
      /\ now \in Nat /\ about[e].began \in Nat /\ about[e].began <= now
  BY DEF AInv, Paying, LInv, TInv, TypeOK, Calls, Times
<1>1. CASE Emit(e)
  <2>1. PICK s \in Sources, t \in Tenders, a \in Automations :
          /\ about' = [about EXCEPT ![e] = [src |-> s, tender |-> t, began |-> now, auto |-> a]]
          /\ pc' = [pc EXCEPT ![e] = IF s.type = "OTHER" THEN "queue" ELSE "load"]
    BY <1>1 DEF Emit
  <2>2. about'[e].began <= now /\ \A r \in Rules : ~Owes(e, r)'
    BY <1>0, <2>1 DEF Owes
  <2>3. QED
    BY <1>0, <1>1, <2>1, <2>2, OthersPay DEF Emit, history
<1>2. CASE Load(e)
  <2>1. \A r \in Rules : Owes(e, r)' => Pays(e, r)'
    BY <1>0, <1>2 DEF Load, Owes, Pays, Live
  <2>2. QED
    BY <1>0, <1>2, <2>1, OthersPay DEF Load, history
<1>3. ASSUME NEW x \in Rules, Look(e, x) PROVE Paying'
  <2>0. /\ todo' = [todo EXCEPT ![e] = @ \ {x}] /\ pc[e] = "look"
        /\ UNCHANGED <<seen, about, alerted, now>>
    BY <1>3 DEF Look, history
  <2>1. CASE UNCHANGED <<pc, cur, at>> /\ ~(Applies(seen[e][x].shape, about[e]) /\ ~Cooling(seen[e][x], now))
    <3>1. ~Owes(e, x)'
      <4>1. Cooling(seen[e][x], now) => Cooling(seen[e][x], about[e].began)
        <5>1. seen[e][x] \in RuleRows
          BY <1>0
        <5>2. seen[e][x].shape.cooldown \in Nat /\ (seen[e][x].last = Never \/ seen[e][x].last \in Nat)
          BY <5>1 DEF RuleRows, RuleShapes, Times
        <5>3. QED
          BY <1>0, <5>2 DEF Cooling
      <4>2. QED
        BY <2>0, <2>1, <4>1 DEF Owes, Applies, InScope, Cooling
    <3>2. ASSUME NEW r \in Rules, Owes(e, r)' PROVE Pays(e, r)'
      <4>1. r # x /\ Owes(e, r)
        BY <2>0, <2>1, <3>1, <3>2 DEF Owes, Applies, InScope, Cooling
      <4>2. Pays(e, r)
        BY <4>1 DEF AInv, Paying
      <4>3. QED
        BY <1>0, <2>0, <2>1, <4>1, <4>2 DEF Pays, Alerted
    <3>3. QED
      BY <1>0, <2>0, <2>1, <3>2, OthersPay
  <2>2. CASE pc' = [pc EXCEPT ![e] = "stamp"] /\ cur' = [cur EXCEPT ![e] = x]
    <3>1. ASSUME NEW r \in Rules, Owes(e, r)' PROVE Pays(e, r)'
      <4>1. Owes(e, r)
        BY <2>0, <2>2, <3>1 DEF Owes, Applies, InScope, Cooling
      <4>2. Pays(e, r)
        BY <4>1 DEF AInv, Paying
      <4>3. QED
        BY <1>0, <2>0, <2>2, <4>2 DEF Pays, Alerted
    <3>2. QED
      BY <1>0, <2>0, <2>2, <3>1, OthersPay
  <2>3. QED
    BY <1>3, <2>1, <2>2 DEF Look
\* The step has paid what e held before it.
<1>4. ASSUME NEW p \in Steps, pc' = [pc EXCEPT ![e] = p], pc[e] \in {"look", "stamp", "alert", "escalate"},
             alerted \subseteq alerted',
             \A o \in Events \ {e} : cur'[o] = cur[o] /\ todo'[o] = todo[o],
             UNCHANGED <<about, seen, now>>,
             p # "failed" => \A r \in Rules : Pays(e, r) => Pays(e, r)'
      PROVE  Paying'
  <2>1. ASSUME NEW r \in Rules, Owes(e, r)' PROVE Pays(e, r)'
    <3>1. Owes(e, r) /\ p # "failed"
      BY <1>0, <1>4, <2>1 DEF Owes, Applies, InScope, Cooling
    <3>2. QED
      BY <1>4, <3>1 DEF AInv, Paying
  <2>2. QED
    BY <1>0, <1>4, <2>1, OthersPay
<1>5. CASE Stamp(e)
  <2>0. pc[e] = "stamp" /\ UNCHANGED <<about, seen, now, cur, alerted>>
    BY <1>5 DEF Stamp
  <2>1. CASE rule[cur[e]].state = "live"
    <3>1. pc' = [pc EXCEPT ![e] = "alert"] /\ UNCHANGED todo
      BY <1>5, <2>1 DEF Stamp
    <3>2. \A r \in Rules : Pays(e, r) => Pays(e, r)'
      BY <1>0, <2>0, <3>1 DEF Pays, Alerted
    <3>3. QED
      BY <1>4, <2>0, <3>1, <3>2 DEF Steps
  <2>2. CASE rule[cur[e]].state # "live"
    <3>1. pc' = [pc EXCEPT ![e] = "failed"] /\ todo' = [todo EXCEPT ![e] = {}]
      BY <1>5, <2>2 DEF Stamp
    <3>2. QED
      BY <1>0, <1>4, <2>0, <3>1 DEF Steps
  <2>3. QED
    BY <2>1, <2>2
<1>6. CASE EmitAlert(e)
  <2>0. /\ pc[e] = "alert" /\ alerted' = alerted \cup {<<e, cur[e], "alert">>}
        /\ UNCHANGED <<about, seen, now, todo>>
    BY <1>6 DEF EmitAlert
  <2>1. CASE about[e].auto = "escalating"
    <3>1. pc' = [pc EXCEPT ![e] = "escalate"] /\ UNCHANGED cur
      BY <1>6, <2>1 DEF EmitAlert
    <3>2. \A r \in Rules : Pays(e, r) => Pays(e, r)'
      BY <1>0, <2>0, <3>1 DEF Pays, Alerted
    <3>3. QED
      BY <1>4, <2>0, <3>1, <3>2 DEF Steps
  <2>2. CASE about[e].auto # "escalating"
    <3>1. pc' = [pc EXCEPT ![e] = "look"] /\ cur' = [cur EXCEPT ![e] = None]
      BY <1>6, <2>2 DEF EmitAlert, NextRule
    <3>2. \A r \in Rules : Pays(e, r) => Pays(e, r)'
      BY <1>0, <2>0, <2>2, <3>1 DEF Pays, Alerted
    <3>3. QED
      BY <1>0, <1>4, <2>0, <3>1, <3>2 DEF Steps
  <2>3. QED
    BY <2>1, <2>2
<1>7. CASE EmitEscalation(e)
  <2>0. /\ pc[e] = "escalate" /\ alerted' = alerted \cup {<<e, cur[e], "escalation">>}
        /\ UNCHANGED <<about, seen, now, todo>>
        /\ pc' = [pc EXCEPT ![e] = "look"] /\ cur' = [cur EXCEPT ![e] = None]
    BY <1>7 DEF EmitEscalation, NextRule
  <2>1. \A r \in Rules : Pays(e, r) => Pays(e, r)'
    BY <1>0, <2>0 DEF Pays, Alerted
  <2>2. QED
    BY <1>0, <1>4, <2>0, <2>1 DEF Steps
<1>8. CASE EndLoop(e)
  <2>0. /\ pc[e] = "look" /\ pc' = [pc EXCEPT ![e] = "queue"]
        /\ UNCHANGED <<about, seen, now, todo, cur, alerted>>
    BY <1>8 DEF EndLoop, evaluation, history
  <2>1. \A r \in Rules : Pays(e, r) => Pays(e, r)'
    BY <1>0, <2>0 DEF Pays, Alerted
  <2>2. QED
    BY <1>0, <1>4, <2>0, <2>1 DEF Steps
<1>9. CASE Queue(e) \/ Fail(e)
  <2>1. pc'[e] \in {"done", "failed"} /\ now' = now /\ alerted' = alerted
    BY <1>0, <1>9 DEF Queue, Fail, history
  <2>2. \A r \in Rules : ~Owes(e, r)'
    BY <2>1 DEF Owes
  <2>3. about'[e].began <= now
    BY <1>0, <1>9 DEF Queue, Fail, NoCall
  <2>4. QED
    BY <1>0, <1>9, <2>1, <2>2, <2>3, OthersPay DEF Queue, Fail
<1>10. QED
  BY <1>1, <1>2, <1>3, <1>5, <1>6, <1>7, <1>8, <1>9 DEF Evaluate

LEMMA PayingStep == AInv /\ [Next]_vars => AInv'
<1> SUFFICES ASSUME AInv, [Next]_vars PROVE AInv'
  OBVIOUS
<1>0. LInv' /\ LInv /\ TInv
  BY LoadedStep DEF AInv, LInv
<1>1. ASSUME UNCHANGED <<pc, evaluation, alerted>>, now' \in Nat, now' >= now PROVE AInv'
  <2>1. \A e \in Events : about[e].began \in Nat /\ now \in Nat /\ about[e].began <= now
    BY <1>0 DEF AInv, Paying, TInv, TypeOK, Calls, Times
  <2>2. \A e \in Events : about'[e].began <= now'
    BY <1>1, <2>1 DEF evaluation
  <2>3. \A e \in Events, r \in Rules :
          /\ Owes(e, r)' => Owes(e, r)
          /\ Pays(e, r) => Pays(e, r)'
    BY <1>1 DEF Owes, Pays, Alerted, Applies, InScope, Cooling, evaluation
  <2>4. QED
    BY <1>0, <2>2, <2>3 DEF AInv, Paying
<1>2. CASE Admin
  BY <1>0, <1>1, <1>2, AdminEffect DEF Administered, history, Times
<1>3. ASSUME NEW e \in Events, Emit(e) \/ Evaluate(e) \/ Fail(e) PROVE AInv'
  BY <1>0, <1>3, PayingEmission DEF AInv
<1>4. CASE UNCHANGED vars
  <2>1. now' \in Nat /\ now' >= now
    BY <1>0, <1>4 DEF vars, TInv, TypeOK, Times
  <2>2. QED
    BY <1>1, <1>4, <2>1 DEF vars, history
<1>5. QED
  BY <1>2, <1>3, <1>4, NextSplits

\* By the time an event is queued, each rule that applies to it has its alert.
THEOREM NoAlertIsMissed == Spec => []NothingMissed
<1>1. AInv => NothingMissed
  <2> SUFFICES ASSUME AInv, NEW e \in Events, NEW r \in Rules, Owes(e, r), pc[e] = "queue"
               PROVE  Alerted(e, r)
    BY DEF NothingMissed, Owes, Alerted, DueAt
  <2>1. Pays(e, r) /\ todo[e] = {}
    BY DEF AInv, Paying, LInv, Loaded
  <2>2. QED
    BY <2>1 DEF Pays
<1>2. QED
  BY <1>1, PayingInit, PayingStep, PTL DEF Spec

-----------------------------------------------------------------------------
(* The alerts an event was not due: there are none, and none twice.        *)

FiredBy(e, r) == \E f \in fired : f.by = e /\ f.rule = r

\* A rule that e stamped was due, and is out of e's hands.
Answered(e, f) ==
  /\ pc[e] \notin {"idle", "load"} /\ ~Holds(e, f.rule)
  /\ pc[e] # "done" => DueAt(e, f.rule, f.at)

Answers(e) ==
  /\ \A r \in todo[e] : seen[e][r].state = "live" /\ seen[e][r].on
  /\ pc[e] = "stamp" => DueAt(e, cur[e], at[e]) /\ cur[e] \notin todo[e]
  /\ pc[e] \in {"alert", "escalate"} => FiredBy(e, cur[e])
  /\ pc[e] = "escalate" => <<e, cur[e], "alert">> \in alerted
  /\ \A f \in fired : f.by = e => Answered(e, f)
  /\ \A r \in Rules :
       /\ <<e, r, "alert">> \in alerted => FiredBy(e, r)
       /\ <<e, r, "escalation">> \in alerted => <<e, r, "alert">> \in alerted
  /\ \A f, g \in fired : f.by = e /\ g.by = e /\ f.rule = g.rule => f = g

VInv == LInv /\ \A e \in Events : Answers(e)

LEMMA AnswersInit == Init => VInv
<1> SUFFICES ASSUME Init PROVE VInv
  OBVIOUS
<1>1. ASSUME NEW e \in Events PROVE Answers(e)
  BY DEF Init, Answers
<1>2. QED
  BY <1>1, LoadedInit DEF VInv

\* Nothing is stamped, and e alerts of nothing.
Quiet(e) ==
  /\ fired' = fired
  /\ \A r \in Rules, k \in {"alert", "escalation"} : <<e, r, k>> \in alerted' <=> <<e, r, k>> \in alerted

\* A step that leaves e where it is.
Stays(e) ==
  /\ pc'[e] = pc[e] /\ about'[e] = about[e] /\ seen'[e] = seen[e] /\ todo'[e] = todo[e]
  /\ cur'[e] = cur[e] /\ at'[e] = at[e]
  /\ fired \subseteq fired' /\ \A f \in fired' : f.by = e => f \in fired
  /\ \A r \in Rules, k \in {"alert", "escalation"} : <<e, r, k>> \in alerted' <=> <<e, r, k>> \in alerted

LEMMA DueStays ==
  ASSUME NEW e \in Events, seen'[e] = seen[e], about'[e] = about[e]
  PROVE  \A r, t : DueAt(e, r, t) <=> DueAt(e, r, t)'
  BY DEF DueAt, Applies, InScope, Cooling

LEMMA AnswersStays ==
  ASSUME LInv, NEW e \in Events, Answers(e), Stays(e)
  PROVE  Answers(e)'
<1>0. \A r, t : DueAt(e, r, t) <=> DueAt(e, r, t)'
  BY DueStays DEF Stays
<1>1. \A r : FiredBy(e, r) => FiredBy(e, r)'
  BY DEF FiredBy, Stays
<1>2. \A r \in todo'[e] : seen'[e][r].state = "live" /\ seen'[e][r].on
  BY DEF Answers, Stays
<1>3. pc'[e] = "stamp" => DueAt(e, cur[e], at[e])' /\ cur'[e] \notin todo'[e]
  BY <1>0 DEF Answers, Stays
<1>4. pc'[e] \in {"alert", "escalate"} => FiredBy(e, cur[e])'
  BY <1>1 DEF Answers, Stays
<1>5. pc'[e] = "escalate" => <<e, cur'[e], "alert">> \in alerted'
  <2>1. pc[e] = "escalate" => cur[e] \in Rules
    BY DEF LInv, TInv, Handy
  <2>2. QED
    BY <2>1 DEF Answers, Stays
<1>6. ASSUME NEW f \in fired', f.by = e PROVE Answered(e, f)'
  <2>1. f \in fired /\ Answered(e, f)
    BY <1>6 DEF Answers, Stays
  <2>2. QED
    BY <1>0, <2>1 DEF Answered, Holds, Stays
<1>7. \A r \in Rules : /\ <<e, r, "alert">> \in alerted' => FiredBy(e, r)'
                       /\ <<e, r, "escalation">> \in alerted' => <<e, r, "alert">> \in alerted'
  BY <1>1 DEF Answers, Stays
<1>8. \A f, g \in fired' : f.by = e /\ g.by = e /\ f.rule = g.rule => f = g
  BY DEF Answers, Stays
<1>9. QED
  BY <1>2, <1>3, <1>4, <1>5, <1>6, <1>7, <1>8 DEF Answers

\* A step of e that stamps and alerts of nothing and takes up no rule.
LEMMA AnswersQuiet ==
  ASSUME LInv, NEW e \in Events, Answers(e), Quiet(e), todo'[e] \subseteq todo[e],
         pc'[e] \notin {"idle", "load", "stamp", "alert", "escalate"},
         pc[e] \notin {"idle", "load"},
         pc'[e] # "done" => seen'[e] = seen[e] /\ about'[e] = about[e],
         pc[e] # "done", todo'[e] = {} \/ seen'[e] = seen[e]
  PROVE  Answers(e)'
<1>1. \A r : FiredBy(e, r) => FiredBy(e, r)'
  BY DEF FiredBy, Quiet
<1>2. ASSUME NEW f \in fired', f.by = e PROVE Answered(e, f)'
  <2>1. f \in fired /\ Answered(e, f)
    BY <1>2 DEF Answers, Quiet
  <2>2. pc'[e] # "done" => DueAt(e, f.rule, f.at)'
    BY <2>1, DueStays DEF Answered
  <2>3. QED
    BY <2>1, <2>2 DEF Answered, Holds
<1>3. \A r \in Rules : /\ <<e, r, "alert">> \in alerted' => FiredBy(e, r)'
                       /\ <<e, r, "escalation">> \in alerted' => <<e, r, "alert">> \in alerted'
  BY <1>1 DEF Answers, Quiet
<1>4. \A f, g \in fired' : f.by = e /\ g.by = e /\ f.rule = g.rule => f = g
  BY DEF Answers, Quiet
<1>5. \A r \in todo'[e] : seen'[e][r].state = "live" /\ seen'[e][r].on
  BY DEF Answers
<1>6. QED
  BY <1>2, <1>3, <1>4, <1>5 DEF Answers

LEMMA AnswersStamp ==
  ASSUME LInv, NEW e \in Events, Answers(e), Stamp(e)
  PROVE  Answers(e)'
<1> DEFINE r == cur[e]
           n == [rule |-> r, by |-> e, at |-> at[e], cooldown |-> seen[e][r].shape.cooldown]
<1>0. /\ pc[e] = "stamp" /\ r \in Rules /\ UNCHANGED <<about, seen, cur, at, alerted>>
      /\ pc \in [Events -> Steps] /\ todo \in [Events -> SUBSET Rules]
      /\ DueAt(e, r, at[e]) /\ r \notin todo[e]
  BY DEF Stamp, LInv, TInv, TypeOK, Handy, Answers
<1>1. \A x, t : DueAt(e, x, t) <=> DueAt(e, x, t)'
  BY <1>0, DueStays
<1>2. CASE rule[r].state # "live"
  <2>1. pc'[e] = "failed" /\ todo'[e] = {} /\ fired' = fired
    BY <1>0, <1>2 DEF Stamp
  <2>2. QED
    BY <1>0, <2>1, AnswersQuiet DEF Quiet
<1>3. CASE rule[r].state = "live"
  <2>1. pc'[e] = "alert" /\ fired' = fired \cup {n} /\ todo'[e] = todo[e]
    BY <1>0, <1>3 DEF Stamp
  <2>2. \A f \in fired : f.by = e => f.rule # r
    BY <1>0 DEF Answers, Answered, Holds
  <2>3. n.by = e /\ n.rule = r /\ n.at = at[e]
    OBVIOUS
  <2> HIDE DEF n, r
  <2>4. FiredBy(e, r)' /\ \A x : FiredBy(e, x) => FiredBy(e, x)'
    <3>1. cur'[e] = r
      BY <1>0 DEF r
    <3>2. n \in fired' /\ fired \subseteq fired'
      BY <2>1
    <3>3. QED
      BY <2>3, <3>1, <3>2 DEF FiredBy, r
  <2>5. ASSUME NEW f \in fired', f.by = e PROVE Answered(e, f)'
    <3>1. CASE f \in fired
      BY <1>0, <1>1, <2>1, <2>5, <3>1 DEF Answers, Answered, Holds
    <3>2. CASE f = n
      <4>1. DueAt(e, f.rule, f.at)'
        BY <1>0, <1>1, <2>3, <3>2
      <4>2. ~(f.rule \in todo'[e])
        BY <1>0, <2>1, <2>3, <3>2
      <4>3. QED
        BY <2>1, <4>1, <4>2 DEF Answered, Holds
    <3>3. QED
      BY <2>1, <3>1, <3>2
  <2>6. \A f, g \in fired' : f.by = e /\ g.by = e /\ f.rule = g.rule => f = g
    BY <2>1, <2>2, <2>3 DEF Answers
  <2>7. \A x \in Rules : /\ <<e, x, "alert">> \in alerted' => FiredBy(e, x)'
                         /\ <<e, x, "escalation">> \in alerted' => <<e, x, "alert">> \in alerted'
    BY <1>0, <2>4 DEF Answers
  <2>8. FiredBy(e, cur[e])'
    BY <1>0, <2>4 DEF r
  <2>9. \A x \in todo'[e] : seen'[e][x].state = "live" /\ seen'[e][x].on
    BY <1>0, <2>1 DEF Answers
  <2>10. QED
    BY <2>1, <2>5, <2>6, <2>7, <2>8, <2>9 DEF Answers
<1>4. QED
  BY <1>2, <1>3

LEMMA AnswersLook ==
  ASSUME LInv, NEW e \in Events, NEW x \in Rules, Answers(e), Look(e, x)
  PROVE  Answers(e)'
<1>0. /\ pc[e] = "look" /\ x \in todo[e] /\ todo'[e] = todo[e] \ {x}
      /\ UNCHANGED <<about, seen, fired, alerted>> /\ pc \in [Events -> Steps]
      /\ cur \in [Events -> Rules \cup {None}] /\ at \in [Events -> Times]
  BY DEF Look, LInv, TInv, TypeOK, history
<1>1. CASE UNCHANGED <<pc, cur, at>>
  BY <1>0, <1>1, AnswersQuiet DEF Quiet
<1>2. CASE /\ Applies(seen[e][x].shape, about[e]) /\ ~Cooling(seen[e][x], now)
           /\ pc' = [pc EXCEPT ![e] = "stamp"] /\ cur' = [cur EXCEPT ![e] = x]
           /\ at' = [at EXCEPT ![e] = now]
  <2>1. pc'[e] = "stamp" /\ cur'[e] = x /\ at'[e] = now
    BY <1>0, <1>2
  <2>2. \A r, t : DueAt(e, r, t) <=> DueAt(e, r, t)'
    BY <1>0, DueStays
  <2>3. DueAt(e, x, now)
    BY <1>0, <1>2 DEF DueAt, Answers
  <2>4. DueAt(e, cur[e], at[e])' /\ cur'[e] \notin todo'[e]
    BY <1>0, <2>1, <2>2, <2>3
  <2>5. ASSUME NEW f \in fired', f.by = e PROVE Answered(e, f)'
    <3>1. Answered(e, f) /\ f.rule # x
      BY <1>0, <2>5 DEF Answers, Answered, Holds
    <3>2. QED
      BY <1>0, <2>1, <2>2, <3>1 DEF Answered, Holds
  <2>6. QED
    BY <1>0, <2>1, <2>4, <2>5 DEF Answers, FiredBy
<1>3. QED
  BY <1>1, <1>2 DEF Look

\* The step that alerts, or escalates.
LEMMA AnswersAlert ==
  ASSUME LInv, NEW e \in Events, Answers(e), NEW p \in {"look", "escalate"},
         NEW k \in {"alert", "escalation"},
         pc[e] = IF k = "alert" THEN "alert" ELSE "escalate",
         p = "escalate" => k = "alert" /\ cur'[e] = cur[e],
         pc'[e] = p, alerted' = alerted \cup {<<e, cur[e], k>>},
         UNCHANGED <<about, seen, fired, todo>>
  PROVE  Answers(e)'
<1>1. \A r, t : DueAt(e, r, t) <=> DueAt(e, r, t)'
  BY DueStays
<1>2. FiredBy(e, cur[e]) /\ (k = "escalation" => <<e, cur[e], "alert">> \in alerted)
  BY DEF Answers
<1>3. \A r : FiredBy(e, r) => FiredBy(e, r)'
  BY DEF FiredBy
<1>4. ASSUME NEW f \in fired', f.by = e PROVE Answered(e, f)'
  <2>1. Answered(e, f)
    BY <1>4 DEF Answers
  <2>2. QED
    BY <1>1, <2>1 DEF Answered, Holds
<1>5. \A r \in Rules : /\ <<e, r, "alert">> \in alerted' => FiredBy(e, r)'
                       /\ <<e, r, "escalation">> \in alerted' => <<e, r, "alert">> \in alerted'
  BY <1>2, <1>3 DEF Answers
<1>6. p = "escalate" => FiredBy(e, cur[e])' /\ <<e, cur'[e], "alert">> \in alerted'
  BY <1>2, <1>3
<1>7. QED
  BY <1>4, <1>5, <1>6 DEF Answers

LEMMA AnswersEmission ==
  ASSUME LInv, NEW e \in Events, Answers(e), Emit(e) \/ Evaluate(e) \/ Fail(e)
  PROVE  Answers(e)'
<1>0. /\ pc \in [Events -> Steps] /\ todo \in [Events -> SUBSET Rules]
      /\ seen \in [Events -> [Rules -> RuleRows]] /\ about \in [Events -> Calls]
      /\ cur \in [Events -> Rules \cup {None}] /\ at \in [Events -> Times]
      /\ pc[e] \in {"idle", "queue"} => todo[e] = {}
  BY DEF LInv, TInv, TypeOK, Loaded
<1>1. ASSUME pc[e] \in {"idle", "load"}, pc'[e] \in {"load", "look", "queue"},
             \A r \in todo'[e] : seen'[e][r].state = "live" /\ seen'[e][r].on,
             UNCHANGED <<fired, alerted>>
      PROVE  Answers(e)'
  <2>1. \A f \in fired : f.by # e
    BY <1>1 DEF Answers, Answered
  <2>2. \A r \in Rules : <<e, r, "alert">> \notin alerted /\ <<e, r, "escalation">> \notin alerted
    BY <2>1 DEF Answers, FiredBy
  <2>3. QED
    BY <1>1, <2>1, <2>2 DEF Answers
<1>2. CASE Emit(e)
  <2>1. pc'[e] \in {"load", "queue"}
    BY <1>0, <1>2 DEF Emit
  <2>2. QED
    BY <1>0, <1>1, <1>2, <2>1 DEF Emit, history
<1>3. CASE Load(e)
  <2>1. /\ pc[e] = "load" /\ pc'[e] = "look" /\ seen'[e] = rule
        /\ todo'[e] = {r \in Live : rule[r].on}
    BY <1>0, <1>3 DEF Load
  <2>2. QED
    BY <1>1, <1>3, <2>1 DEF Load, Live, history
<1>4. ASSUME NEW r \in Rules, Look(e, r) PROVE Answers(e)'
  BY <1>4, AnswersLook
<1>5. CASE Stamp(e)
  BY <1>5, AnswersStamp
<1>6. CASE EmitAlert(e)
  <2>0. /\ pc[e] = "alert" /\ alerted' = alerted \cup {<<e, cur[e], "alert">>}
        /\ UNCHANGED <<about, seen, fired, todo>>
    BY <1>6 DEF EmitAlert
  <2>1. \/ pc'[e] = "escalate" /\ cur'[e] = cur[e]
        \/ pc'[e] = "look"
    BY <1>0, <1>6 DEF EmitAlert, NextRule
  <2>2. QED
    BY <2>0, <2>1, AnswersAlert
<1>7. CASE EmitEscalation(e)
  <2>0. /\ pc[e] = "escalate" /\ alerted' = alerted \cup {<<e, cur[e], "escalation">>}
        /\ UNCHANGED <<about, seen, fired, todo>> /\ pc'[e] = "look"
    BY <1>0, <1>7 DEF EmitEscalation, NextRule
  <2>1. QED
    BY <2>0, AnswersAlert
<1>8. CASE EndLoop(e)
  BY <1>0, <1>8, AnswersQuiet DEF EndLoop, Quiet, evaluation, history
<1>9. CASE Queue(e)
  BY <1>0, <1>9, AnswersQuiet DEF Queue, Quiet, history
<1>10. CASE Fail(e)
  <2>1. /\ pc'[e] = "failed" /\ todo'[e] = {} /\ UNCHANGED <<about, seen, fired, alerted>>
        /\ pc[e] \notin {"idle", "done"}
    BY <1>0, <1>10 DEF Fail, Active
  <2>2. CASE pc[e] = "load"
    <3>1. \A f \in fired : f.by # e
      BY <2>2 DEF Answers, Answered
    <3>2. \A r \in Rules : <<e, r, "alert">> \notin alerted /\ <<e, r, "escalation">> \notin alerted
      BY <3>1 DEF Answers, FiredBy
    <3>3. QED
      BY <2>1, <3>1, <3>2 DEF Answers
  <2>3. CASE pc[e] # "load"
    BY <2>1, <2>3, AnswersQuiet DEF Quiet
  <2>4. QED
    BY <2>2, <2>3
<1>11. QED
  BY <1>2, <1>3, <1>4, <1>5, <1>6, <1>7, <1>8, <1>9, <1>10 DEF Evaluate

LEMMA OthersStay ==
  ASSUME LInv, NEW e \in Events, Emit(e) \/ Evaluate(e) \/ Fail(e), NEW o \in Events \ {e}
  PROVE  Stays(o)
<1>0. /\ pc \in [Events -> Steps] /\ todo \in [Events -> SUBSET Rules]
      /\ seen \in [Events -> [Rules -> RuleRows]] /\ about \in [Events -> Calls]
      /\ cur \in [Events -> Rules \cup {None}] /\ at \in [Events -> Times]
  BY DEF LInv, TInv, TypeOK
<1>1. CASE Emit(e) \/ Load(e) \/ EndLoop(e) \/ Queue(e) \/ Fail(e)
  BY <1>0, <1>1 DEF Emit, Load, EndLoop, Queue, Fail, Stays, evaluation, history
<1>2. ASSUME NEW r \in Rules, Look(e, r) PROVE Stays(o)
  BY <1>0, <1>2 DEF Look, Stays, history
<1>3. CASE Stamp(e)
  <2>1. UNCHANGED <<about, seen, cur, at, alerted>> /\ pc'[o] = pc[o] /\ todo'[o] = todo[o]
    BY <1>0, <1>3 DEF Stamp
  <2>2. fired \subseteq fired' /\ \A f \in fired' : f.by = o => f \in fired
    BY <1>3 DEF Stamp
  <2>3. QED
    BY <2>1, <2>2 DEF Stays
<1>4. CASE EmitAlert(e) \/ EmitEscalation(e)
  BY <1>0, <1>4 DEF EmitAlert, EmitEscalation, NextRule, Stays
<1>5. QED
  BY <1>1, <1>2, <1>3, <1>4 DEF Evaluate

LEMMA AnswersStep == VInv /\ [Next]_vars => VInv'
<1> SUFFICES ASSUME VInv, [Next]_vars PROVE VInv'
  OBVIOUS
<1>0. LInv' /\ LInv /\ TInv
  BY LoadedStep DEF VInv, LInv
<1>1. ASSUME UNCHANGED <<pc, evaluation, history>> PROVE VInv'
  <2>1. \A e \in Events : Stays(e)
    BY <1>1 DEF Stays, evaluation, history
  <2>2. QED
    BY <1>0, <2>1, AnswersStays DEF VInv
<1>2. CASE Admin
  BY <1>0, <1>1, <1>2, AdminEffect DEF Administered
<1>3. ASSUME NEW e \in Events, Emit(e) \/ Evaluate(e) \/ Fail(e) PROVE VInv'
  <2>1. Answers(e)'
    BY <1>0, <1>3, AnswersEmission DEF VInv
  <2>2. \A o \in Events \ {e} : Answers(o)'
    BY <1>0, <1>3, OthersStay, AnswersStays DEF VInv
  <2>3. QED
    BY <1>0, <2>1, <2>2 DEF VInv
<1>4. CASE UNCHANGED vars
  BY <1>1, <1>4 DEF vars
<1>5. QED
  BY <1>2, <1>3, <1>4, NextSplits

\* An event alerts of each rule due to it, of no other, and of none twice.
THEOREM AlertsAreExact == Spec => []AlertsAreDue
<1>1. VInv => NothingInvented /\ \A f, g \in fired : f.by = g.by /\ f.rule = g.rule => f = g
  <2> SUFFICES ASSUME VInv
               PROVE  NothingInvented /\ \A f, g \in fired : f.by = g.by /\ f.rule = g.rule => f = g
    OBVIOUS
  <2>1. \A f \in fired : f.by \in Events
    BY DEF VInv, LInv, TInv, TypeOK
  <2>2. \A f \in fired : pc[f.by] # "done" => DueAt(f.by, f.rule, f.at)
    BY <2>1 DEF VInv, Answers, Answered
  <2>3. \A e \in Events, r \in Rules :
          /\ <<e, r, "alert">> \in alerted => \E f \in fired : f.by = e /\ f.rule = r
          /\ <<e, r, "escalation">> \in alerted => <<e, r, "alert">> \in alerted
    BY DEF VInv, Answers, FiredBy
  <2>4. \A f, g \in fired : f.by = g.by /\ f.rule = g.rule => f = g
    BY <2>1 DEF VInv, Answers
  <2>5. QED
    BY <2>2, <2>3, <2>4 DEF NothingInvented
<1>2. QED
  BY <1>1, AnswersInit, AnswersStep, NoAlertIsMissed, PTL DEF Spec, AlertsAreDue
=============================================================================
