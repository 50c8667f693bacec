------------------------- MODULE ActionFabricProofs -------------------------
(***************************************************************************)
(* Theorems about ActionFabric, for every set of capabilities, grants and  *)
(* graphs and every bound.  The invariant that carries them relates the    *)
(* journal (its cursor, statuses and tokens) to the effects reported to    *)
(* it, for the live journal and for the one in the checkpoint alike.       *)
(***************************************************************************)
EXTENDS ActionFabric, SequenceTheorems, TLAPS

(* Shape of one plan, a rollback that broke off included.                  *)
PlanInv(p) ==
    LET n == Len(p.actions) IN
    /\ p.cursor <= n
    /\ \A i \in 1..n :
        /\ ValidAction(p.actions[i])
        /\ p.actions[i].status = "Committed" => p.actions[i].output
        /\ i <= p.cursor => p.actions[i].status \in {"Committed", "RolledBack"}
        /\ i > p.cursor + 1 => p.actions[i].status = "Prepared"
        /\ i = p.cursor + 1 =>
            /\ p.actions[i].status # "Committed"
            /\ p.status = "Suspended" =>
                 \/ p.actions[i].status = "Suspended" /\ p.actions[i].resume_token
                 \/ p.actions[i].status = "RolledBack"
            /\ p.status = "Ready" =>
                 p.actions[i].status \in {"Prepared", "Retryable", "Running", "RolledBack"}
            /\ p.status = "Failed" => p.actions[i].status \in {"Failed", "RolledBack"}
        /\ p.status = "RolledBack" =>
             \/ p.actions[i].side_effect = "ReadOnly"
             \/ p.actions[i].status \in {"Prepared", "RolledBack"}
    /\ p.status = "Completed" => p.cursor = n
    /\ p.cursor = n => p.status \in {"Completed", "RolledBack"}

(* An accepted effect belongs to a committed write, whose token, if it has *)
(* one, is the token of that effect.                                       *)
EffectInv(ps, rep) ==
    \A e \in rep : \A p \in DOMAIN ps : \A i \in DOMAIN ps[p].actions :
        e.accepted /\ e.id = ps[p].actions[i].id =>
            /\ ps[p].actions[i].status = "Committed"
            /\ ps[p].actions[i].side_effect # "ReadOnly"
            /\ HasToken(ps[p].actions[i]) => ps[p].actions[i].rollback_token = e.serial

JournalInv(ps, next, rep) ==
    /\ ValidIds(ps, next)
    /\ \A p \in DOMAIN ps : PlanInv(ps[p])
    /\ EffectInv(ps, rep)
    /\ \A e \in rep : e.id < next

IInv ==
    /\ TypeOK
    /\ JournalInv(plans, next_action_id, reported)
    /\ saved # NoCheckpoint => JournalInv(saved.plans, saved.next_action_id, saved.reported)

-----------------------------------------------------------------------------
(* Facts about single steps.                                               *)

(* The action under the cursor of a plan that is not exhausted.            *)
LEMMA CurrentType ==
    ASSUME TypeOK, NEW p \in DOMAIN plans, ~Exhausted(p)
    PROVE  /\ plans[p] \in ActionPlanState
           /\ plans[p].cursor \in Nat
           /\ plans[p].status \in ActionPlanStatus
           /\ plans[p].actions \in Seq(PlannedAction)
           /\ Len(plans[p].actions) \in Nat
           /\ DOMAIN plans[p].actions = 1..Len(plans[p].actions)
           /\ Index(p) \in 1..Len(plans[p].actions)
           /\ Current(p) \in PlannedAction
  <1>1. plans[p] \in ActionPlanState
    BY ElementOfSeq DEF TypeOK
  <1>2. /\ plans[p].actions \in Seq(PlannedAction) /\ plans[p].cursor \in Nat
        /\ plans[p].status \in ActionPlanStatus
    BY <1>1 DEF ActionPlanState
  <1>3. Len(plans[p].actions) \in Nat /\ DOMAIN plans[p].actions = 1..Len(plans[p].actions)
    BY <1>2, LenProperties
  <1>4. Index(p) \in 1..Len(plans[p].actions)
    BY <1>2, <1>3 DEF Exhausted, Index
  <1>5. Current(p) \in PlannedAction
    BY <1>2, <1>4, ElementOfSeq DEF Current
  <1> QED BY <1>1, <1>2, <1>3, <1>4, <1>5

(* The journal entry of a call keeps the identity of the action.           *)
LEMMA EntryType ==
    ASSUME TypeOK, NEW p \in DOMAIN plans, ~Exhausted(p),
           NEW s \in ActionStatus, NEW out \in BOOLEAN, NEW res \in BOOLEAN, NEW tok \in Nat
    PROVE  LET a == Entry(p, s, out, res, tok) IN
           /\ a \in PlannedAction
           /\ a.status = s /\ a.output = out /\ a.resume_token = res /\ a.rollback_token = tok
           /\ a.id = Current(p).id /\ a.capability = Current(p).capability
           /\ a.side_effect = Current(p).side_effect
           /\ a.verification_required = Current(p).verification_required
           /\ a.attempts = Current(p).attempts + 1
  <1> DEFINE a == Entry(p, s, out, res, tok)
  <1>1. Current(p) \in PlannedAction
    BY CurrentType
  <1>2. Current(p).attempts + 1 \in Nat
    BY <1>1 DEF PlannedAction
  <1>3. a \in PlannedAction
    BY <1>1, <1>2, Zenon DEF Entry, PlannedAction
  <1>4. /\ a.status = s /\ a.output = out /\ a.resume_token = res /\ a.rollback_token = tok
        /\ a.id = Current(p).id /\ a.capability = Current(p).capability
        /\ a.side_effect = Current(p).side_effect
        /\ a.verification_required = Current(p).verification_required
        /\ a.attempts = Current(p).attempts + 1
    BY <1>1, Zenon DEF Entry, PlannedAction
  <1> QED BY <1>3, <1>4

(* Replacing one plan of a sequence of plans.                              *)
LEMMA ReplaceType ==
    ASSUME NEW ps \in Seq(ActionPlanState), NEW p \in DOMAIN ps,
           NEW np \in ActionPlanState
    PROVE  /\ [ps EXCEPT ![p] = np] \in Seq(ActionPlanState)
           /\ DOMAIN [ps EXCEPT ![p] = np] = DOMAIN ps
           /\ \A q \in DOMAIN ps : [ps EXCEPT ![p] = np][q] = IF q = p THEN np ELSE ps[q]
  BY ExceptSeq, LenProperties

(* A plan keeps the number and the ids of its actions.                     *)
SameActions(p, q) ==
    /\ DOMAIN q.actions = DOMAIN p.actions
    /\ \A i \in DOMAIN p.actions : q.actions[i].id = p.actions[i].id

(* A plan replaced by one with the same actions keeps action ids unique    *)
(* and below the counter (validate_fabric_state).                          *)
LEMMA ReplaceKeepsIds ==
    ASSUME NEW ps \in Seq(ActionPlanState), NEW p \in DOMAIN ps,
           NEW np \in ActionPlanState, NEW next,
           ValidIds(ps, next), SameActions(ps[p], np),
           NEW ps2, ps2 = [ps EXCEPT ![p] = np]
    PROVE  ValidIds(ps2, next)
  <1>1. /\ DOMAIN ps2 = DOMAIN ps
        /\ \A q \in DOMAIN ps : ps2[q] = IF q = p THEN np ELSE ps[q]
    BY ReplaceType
  <1>2. \A q \in DOMAIN ps : SameActions(ps[q], ps2[q])
    BY <1>1 DEF SameActions
  <1> QED BY <1>1, <1>2 DEF ValidIds, SameActions

(* The plan a step of execute_next leaves behind.                          *)
Stepped(p, a, s, c) ==
    [cursor |-> c, status |-> s, actions |-> [plans[p].actions EXCEPT ![Index(p)] = a]]

(* The plan that a call of execute_next leaves is a plan, with the entry   *)
(* under the old cursor.                                                   *)
LEMMA SteppedType ==
    ASSUME TypeOK, NEW p \in DOMAIN plans, ~Exhausted(p),
           NEW a \in PlannedAction, NEW s \in ActionPlanStatus, NEW c \in Nat
    PROVE  /\ Stepped(p, a, s, c) \in ActionPlanState
           /\ Stepped(p, a, s, c).cursor = c
           /\ Stepped(p, a, s, c).status = s
           /\ Len(Stepped(p, a, s, c).actions) = Len(plans[p].actions)
           /\ DOMAIN Stepped(p, a, s, c).actions = DOMAIN plans[p].actions
           /\ \A i \in 1..Len(plans[p].actions) :
                Stepped(p, a, s, c).actions[i] =
                    IF i = Index(p) THEN a ELSE plans[p].actions[i]
  <1> DEFINE acts == plans[p].actions
  <1>1. acts \in Seq(PlannedAction) /\ Index(p) \in 1..Len(acts)
    BY CurrentType DEF ActionPlanState
  <1>2. /\ [acts EXCEPT ![Index(p)] = a] \in Seq(PlannedAction)
        /\ Len([acts EXCEPT ![Index(p)] = a]) = Len(acts)
        /\ \A j \in 1..Len(acts) :
             [acts EXCEPT ![Index(p)] = a][j] = IF j = Index(p) THEN a ELSE acts[j]
    BY <1>1, ExceptSeq
  <1>3. DOMAIN [acts EXCEPT ![Index(p)] = a] = DOMAIN acts
    OBVIOUS
  <1> QED BY <1>2, <1>3 DEF Stepped, ActionPlanState

(* What execute_next writes (action_mut, set_plan_status) is one replaced  *)
(* plan.                                                                   *)
LEMMA JournalStep ==
    ASSUME NEW p \in DOMAIN plans, NEW a, NEW s, NEW c, Journal(p, a, s, c)
    PROVE  plans' = [plans EXCEPT ![p] = Stepped(p, a, s, c)]
  BY DEF Journal, Stepped

(* What a call may enter: the plan's status follows the action's, and only *)
(* a commit moves the cursor.                                              *)
Outcome(p, s, out, res, tok, st, c) ==
    /\ res => Resumable[Current(p).capability]
    /\ tok # NoToken => RollbackSupported[Current(p).capability]
    /\ \/ /\ c = plans[p].cursor
          /\ \/ st = "Ready" /\ s \in {"Retryable", "Running"}
             \/ st = "Suspended" /\ s = "Suspended" /\ res
             \/ st = "Failed" /\ s \in {"Failed", "RolledBack"}
       \/ /\ c = plans[p].cursor + 1
          /\ s = "Committed" /\ out
          /\ st = advance_cursor(p)

(* Each of the outcomes that execute_next and apply_adapter_result enter   *)
(* preserves the invariant of the journal.                                 *)
LEMMA StepInv ==
    ASSUME TypeOK, ValidIds(plans, next_action_id),
           \A q \in DOMAIN plans : PlanInv(plans[q]),
           NEW p \in DOMAIN plans, NEW grant, Admitted(p, grant),
           NEW s \in ActionStatus, NEW out \in BOOLEAN, NEW res \in BOOLEAN, NEW tok \in Nat,
           NEW st \in ActionPlanStatus, NEW c \in Nat,
           Outcome(p, s, out, res, tok, st, c),
           Journal(p, Entry(p, s, out, res, tok), st, c)
    PROVE  /\ plans' \in Seq(ActionPlanState)
           /\ DOMAIN plans' = DOMAIN plans
           /\ ValidIds(plans', next_action_id)
           /\ \A q \in DOMAIN plans' : PlanInv(plans'[q])
           /\ EffectInv(plans, reported) => EffectInv(plans', reported)
           /\ plans'[p].actions[Index(p)] = Entry(p, s, out, res, tok)
           /\ Index(p) \in DOMAIN plans'[p].actions
  <1> DEFINE a == Entry(p, s, out, res, tok)
             np == Stepped(p, a, st, c)
             n == Len(plans[p].actions)
  <1>1. ~Exhausted(p) /\ Current(p).status \notin {"Committed", "RolledBack", "Failed"}
        /\ plans[p].status \notin TerminalPlan
    BY DEF Admitted
  <1>2. /\ a \in PlannedAction
        /\ a.status = s /\ a.output = out /\ a.resume_token = res /\ a.rollback_token = tok
        /\ a.id = Current(p).id /\ a.capability = Current(p).capability
        /\ a.side_effect = Current(p).side_effect
        /\ a.verification_required = Current(p).verification_required
    BY <1>1, EntryType
  <1>3. /\ plans[p].cursor \in Nat /\ n \in Nat /\ DOMAIN plans[p].actions = 1..n
        /\ Index(p) \in 1..n
    BY <1>1, CurrentType
  <1>4. /\ np \in ActionPlanState
        /\ np.cursor = c /\ np.status = st
        /\ Len(np.actions) = n /\ DOMAIN np.actions = DOMAIN plans[p].actions
        /\ \A i \in 1..n : np.actions[i] = IF i = Index(p) THEN a ELSE plans[p].actions[i]
    BY <1>1, <1>2, SteppedType
  <1>5. plans' = [plans EXCEPT ![p] = np]
    BY JournalStep
  <1>6. /\ plans' \in Seq(ActionPlanState)
        /\ DOMAIN plans' = DOMAIN plans
        /\ \A q \in DOMAIN plans : plans'[q] = IF q = p THEN np ELSE plans[q]
    BY <1>4, <1>5, ReplaceType DEF TypeOK
  <1>7. SameActions(plans[p], np)
    BY <1>2, <1>3, <1>4 DEF SameActions, Current
  <1>8. ValidIds(plans', next_action_id)
    BY <1>4, <1>5, <1>7, ReplaceKeepsIds DEF TypeOK
  <1>9. PlanInv(plans[p]) /\ Current(p) = plans[p].actions[Index(p)]
    BY DEF Current
  <1>10. ValidAction(a)
    BY <1>2, <1>3, <1>9 DEF PlanInv, ValidAction, Outcome
  <1>11. PlanInv(np)
    <2>1. c <= n
      BY <1>3 DEF Outcome, Index
    <2>2. ASSUME NEW i \in 1..n
          PROVE  /\ ValidAction(np.actions[i])
                 /\ np.actions[i].status = "Committed" => np.actions[i].output
      BY <1>2, <1>3, <1>4, <1>9, <1>10 DEF PlanInv, Outcome
    <2>3. ASSUME NEW i \in 1..n
          PROVE  /\ i <= c => np.actions[i].status \in {"Committed", "RolledBack"}
                 /\ i > c + 1 => np.actions[i].status = "Prepared"
      BY <1>2, <1>3, <1>4, <1>9, SMTT(40) DEF PlanInv, Outcome, Index
    <2>4. ASSUME NEW i \in 1..n, i = c + 1
          PROVE  /\ np.actions[i].status # "Committed"
                 /\ st = "Suspended" =>
                      \/ np.actions[i].status = "Suspended" /\ np.actions[i].resume_token
                      \/ np.actions[i].status = "RolledBack"
                 /\ st = "Ready" =>
                      np.actions[i].status \in {"Prepared", "Retryable", "Running", "RolledBack"}
                 /\ st = "Failed" => np.actions[i].status \in {"Failed", "RolledBack"}
      <3>1. CASE c = plans[p].cursor /\ s # "Committed"
        BY <1>2, <1>3, <1>4, <2>4, <3>1 DEF Outcome, Index
      <3>2. CASE c = plans[p].cursor + 1 /\ s = "Committed" /\ st = advance_cursor(p)
        <4>1. np.actions[i] = plans[p].actions[i] /\ i > plans[p].cursor + 1
          BY <1>3, <1>4, <2>4, <3>2, SMTT(40) DEF Index
        <4>2. plans[p].actions[i].status = "Prepared"
          BY <1>3, <1>9, <4>1 DEF PlanInv
        <4> QED BY <4>1, <4>2, <3>2 DEF advance_cursor
      <3> QED BY <3>1, <3>2 DEF Outcome
    <2>5. st # "RolledBack" /\ (st = "Completed" => c = n)
          /\ (c = n => st \in {"Completed", "RolledBack"})
      BY <1>1, <1>3 DEF Outcome, advance_cursor, Index
    <2> QED BY <1>4, <2>1, <2>2, <2>3, <2>4, <2>5 DEF PlanInv
  <1>12. \A q \in DOMAIN plans' : PlanInv(plans'[q])
    BY <1>6, <1>11
  <1>13. EffectInv(plans, reported) => EffectInv(plans', reported)
    <2> SUFFICES ASSUME EffectInv(plans, reported),
                        NEW e \in reported, NEW q \in DOMAIN plans',
                        NEW i \in DOMAIN plans'[q].actions,
                        e.accepted, e.id = plans'[q].actions[i].id
                 PROVE  plans'[q].actions[i] = plans[q].actions[i] /\ i \in DOMAIN plans[q].actions
      BY <1>6 DEF EffectInv
    <2>1. CASE q = p /\ i = Index(p)
      <3>1. e.id = plans[p].actions[Index(p)].id
        BY <1>2, <1>3, <1>4, <1>6, <1>9, <2>1
      <3>2. plans[p].actions[Index(p)].status = "Committed"
        BY <3>1, <1>3 DEF EffectInv
      <3> QED BY <3>2, <1>1, <1>9
    <2>2. CASE ~(q = p /\ i = Index(p))
      BY <1>3, <1>4, <1>6, <2>2
    <2> QED BY <2>1, <2>2
  <1> QED BY <1>3, <1>4, <1>6, <1>8, <1>12, <1>13

-----------------------------------------------------------------------------
(* rollback_plan.                                                          *)

(* Marking an action RolledBack, as rollback_plan does, changes only its   *)
(* status.                                                                 *)
LEMMA UndoneAction ==
    ASSUME NEW a \in PlannedAction
    PROVE  LET b == [a EXCEPT !.status = "RolledBack"] IN
           /\ b \in PlannedAction
           /\ b.status = "RolledBack" /\ b.id = a.id /\ b.capability = a.capability
           /\ b.side_effect = a.side_effect /\ b.attempts = a.attempts
           /\ b.verification_required = a.verification_required /\ b.output = a.output
           /\ b.resume_token = a.resume_token /\ b.rollback_token = a.rollback_token
  <1>1. "RolledBack" \in ActionStatus
    BY DEF ActionStatus
  <1>2. [a EXCEPT !.status = "RolledBack"] \in PlannedAction
    BY <1>1, Zenon DEF PlannedAction
  <1> QED BY <1>2, Zenon DEF PlannedAction

Undone(p, U, st) ==
    [cursor |-> plans[p].cursor, status |-> st,
     actions |-> [i \in 1..Len(plans[p].actions) |->
         IF i \in U THEN [plans[p].actions[i] EXCEPT !.status = "RolledBack"]
                    ELSE plans[p].actions[i]]]

(* The plan that rollback_plan leaves is a plan, with the undone actions   *)
(* RolledBack.                                                             *)
LEMMA UndoneType ==
    ASSUME TypeOK, NEW p \in DOMAIN plans, NEW U, NEW st \in ActionPlanStatus
    PROVE  /\ Undone(p, U, st) \in ActionPlanState
           /\ plans[p] \in ActionPlanState
           /\ plans[p].cursor \in Nat /\ Len(plans[p].actions) \in Nat
           /\ DOMAIN plans[p].actions = 1..Len(plans[p].actions)
           /\ \A i \in DOMAIN plans[p].actions : plans[p].actions[i] \in PlannedAction
           /\ Undone(p, U, st).cursor = plans[p].cursor
           /\ Undone(p, U, st).status = st
           /\ Len(Undone(p, U, st).actions) = Len(plans[p].actions)
           /\ DOMAIN Undone(p, U, st).actions = DOMAIN plans[p].actions
           /\ \A i \in DOMAIN plans[p].actions : Undone(p, U, st).actions[i] =
                IF i \in U THEN [plans[p].actions[i] EXCEPT !.status = "RolledBack"]
                           ELSE plans[p].actions[i]
  <1> DEFINE acts == plans[p].actions
             new == [i \in 1..Len(acts) |->
                       IF i \in U THEN [acts[i] EXCEPT !.status = "RolledBack"] ELSE acts[i]]
  <1>1. plans[p] \in ActionPlanState
    BY ElementOfSeq DEF TypeOK
  <1>2. acts \in Seq(PlannedAction) /\ plans[p].cursor \in Nat
    BY <1>1 DEF ActionPlanState
  <1>3. Len(acts) \in Nat /\ DOMAIN acts = 1..Len(acts)
        /\ \A i \in DOMAIN acts : acts[i] \in PlannedAction
    BY <1>2, LenProperties, ElementOfSeq
  <1>4. \A i \in 1..Len(acts) : new[i] \in PlannedAction
    BY <1>3, UndoneAction
  <1>5. new \in [1..Len(acts) -> PlannedAction]
    BY <1>4
  <1>6. new \in Seq(PlannedAction) /\ Len(new) = Len(acts)
    BY <1>3, <1>5
  <1> QED BY <1>1, <1>2, <1>3, <1>6 DEF Undone, ActionPlanState

(* Undoing some of a plan's writes by their tokens (rollback_plan)         *)
(* preserves the invariant of the journal.                                 *)
LEMMA UndoInv ==
    ASSUME TypeOK, ValidIds(plans, next_action_id),
           \A q \in DOMAIN plans : PlanInv(plans[q]), EffectInv(plans, reported),
           NEW p \in DOMAIN plans, NEW U \in SUBSET ToUndo(p), NEW st \in ActionPlanStatus,
           \A i \in U : HasToken(plans[p].actions[i]),
           st = plans[p].status \/ (st = "RolledBack" /\ U = ToUndo(p)),
           Undo(p, U, st)
    PROVE  /\ plans' \in Seq(ActionPlanState)
           /\ DOMAIN plans' = DOMAIN plans
           /\ reported' \subseteq reported
           /\ ValidIds(plans', next_action_id)
           /\ \A q \in DOMAIN plans' : PlanInv(plans'[q])
           /\ EffectInv(plans', reported')
  <1> DEFINE np == Undone(p, U, st)
             acts == plans[p].actions
             n == Len(acts)
  <1>1. /\ np \in ActionPlanState
        /\ plans[p].cursor \in Nat /\ n \in Nat /\ DOMAIN acts = 1..n
        /\ \A i \in DOMAIN acts : acts[i] \in PlannedAction
        /\ np.cursor = plans[p].cursor /\ np.status = st
        /\ Len(np.actions) = n /\ DOMAIN np.actions = DOMAIN acts
        /\ \A i \in DOMAIN acts : np.actions[i] =
             IF i \in U THEN [acts[i] EXCEPT !.status = "RolledBack"] ELSE acts[i]
    BY UndoneType
  <1>2. plans' = [plans EXCEPT ![p] = np]
    BY DEF Undo, Undone
  <1>3. /\ plans' \in Seq(ActionPlanState)
        /\ DOMAIN plans' = DOMAIN plans
        /\ \A q \in DOMAIN plans : plans'[q] = IF q = p THEN np ELSE plans[q]
    BY <1>1, <1>2, ReplaceType DEF TypeOK
  <1>4. \A i \in DOMAIN acts :
          /\ np.actions[i].id = acts[i].id /\ np.actions[i].capability = acts[i].capability
          /\ np.actions[i].side_effect = acts[i].side_effect
          /\ np.actions[i].verification_required = acts[i].verification_required
          /\ np.actions[i].output = acts[i].output
          /\ np.actions[i].resume_token = acts[i].resume_token
          /\ np.actions[i].rollback_token = acts[i].rollback_token
          /\ np.actions[i].status = IF i \in U THEN "RolledBack" ELSE acts[i].status
    <2> TAKE i \in DOMAIN acts
    <2>1. CASE i \in U
      <3>1. np.actions[i] = [acts[i] EXCEPT !.status = "RolledBack"] /\ acts[i] \in PlannedAction
        BY <1>1, <2>1
      <3> QED BY <2>1, <3>1, UndoneAction, SMTT(40)
    <2>2. CASE i \notin U
      BY <1>1, <2>2
    <2> QED BY <2>1, <2>2
  <1>5. ValidIds(plans', next_action_id)
    <2>1. SameActions(plans[p], np)
      BY <1>1, <1>4 DEF SameActions
    <2> QED BY <2>1, <1>1, <1>2, ReplaceKeepsIds DEF TypeOK
  <1>6. PlanInv(plans[p])
    OBVIOUS
  <1>7. PlanInv(np)
    <2>1. ASSUME NEW i \in 1..n
          PROVE  ValidAction(np.actions[i])
      BY <1>1, <1>4, <1>6 DEF PlanInv, ValidAction
    <2>2. ASSUME NEW i \in U
          PROVE  i \in 1..n /\ acts[i].status # "Prepared"
      BY <1>1 DEF ToUndo
    <2>3. ASSUME NEW i \in 1..n
          PROVE  /\ np.actions[i].status = "Committed" => np.actions[i].output
                 /\ i <= np.cursor => np.actions[i].status \in {"Committed", "RolledBack"}
                 /\ i > np.cursor + 1 => np.actions[i].status = "Prepared"
      BY <1>1, <1>4, <1>6, <2>2 DEF PlanInv
    <2>4. ASSUME NEW i \in 1..n, i = np.cursor + 1
          PROVE  /\ np.actions[i].status # "Committed"
                 /\ np.status = "Suspended" =>
                      \/ np.actions[i].status = "Suspended" /\ np.actions[i].resume_token
                      \/ np.actions[i].status = "RolledBack"
                 /\ np.status = "Ready" =>
                      np.actions[i].status \in {"Prepared", "Retryable", "Running", "RolledBack"}
                 /\ np.status = "Failed" => np.actions[i].status \in {"Failed", "RolledBack"}
      BY <1>1, <1>4, <1>6, <2>4 DEF PlanInv
    <2>5. ASSUME NEW i \in 1..n, np.status = "RolledBack"
          PROVE  \/ np.actions[i].side_effect = "ReadOnly"
                 \/ np.actions[i].status \in {"Prepared", "RolledBack"}
      BY <1>1, <1>4, <1>6, <2>5 DEF PlanInv, ToUndo
    <2>6. /\ np.status = "Completed" => np.cursor = n
          /\ np.cursor = n => np.status \in {"Completed", "RolledBack"}
          /\ np.cursor <= n
      BY <1>1, <1>6 DEF PlanInv
    <2> QED BY <1>1, <2>1, <2>3, <2>4, <2>5, <2>6 DEF PlanInv
  <1>8. \A q \in DOMAIN plans' : PlanInv(plans'[q])
    BY <1>3, <1>7
  <1>9. reported' \subseteq reported
    BY DEF Undo
  <1>10. EffectInv(plans', reported')
    <2> SUFFICES ASSUME NEW e \in reported', NEW q \in DOMAIN plans',
                        NEW i \in DOMAIN plans'[q].actions,
                        e.accepted, e.id = plans'[q].actions[i].id
                 PROVE  i \in DOMAIN plans[q].actions /\ plans'[q].actions[i] = plans[q].actions[i]
      BY <1>3, <1>9 DEF EffectInv
    <2>1. CASE q = p /\ i \in U
      <3>1. e.id = acts[i].id /\ i \in DOMAIN acts
        BY <1>1, <1>3, <1>4, <2>1
      <3>2. acts[i].rollback_token = e.serial
        BY <1>9, <3>1, <2>1 DEF EffectInv
      <3> QED BY <3>1, <3>2, <2>1 DEF Undo
    <2>2. CASE ~(q = p /\ i \in U)
      BY <1>1, <1>3, <2>2
    <2> QED BY <2>1, <2>2
  <1> QED BY <1>3, <1>5, <1>8, <1>9, <1>10

-----------------------------------------------------------------------------
(* prepare_plan.                                                           *)

NewPlan(g) ==
    [cursor |-> 0, status |-> "Ready",
     actions |-> [i \in 1..Len(g) |-> NewAction(g[i], next_action_id + i - 1)]]

(* A plan that prepare_plan appends is well formed and takes fresh action  *)
(* ids.                                                                    *)
LEMMA PrepareInv ==
    ASSUME TypeOK, JournalInv(plans, next_action_id, reported),
           NEW g \in Graphs, prepare_plan(g)
    PROVE  /\ plans' \in Seq(ActionPlanState)
           /\ next_action_id' \in Nat \ {0}
           /\ JournalInv(plans', next_action_id', reported')
  <1> DEFINE np == NewPlan(g)
             n == Len(g)
  <1>1. /\ g \in Seq(Node) /\ n \in Nat \ {0} /\ DOMAIN g = 1..n
        /\ \A i \in 1..n : g[i] \in Node
    <2>1. g \in Seq(Node) /\ g # <<>>
      BY InputAssumption DEF prepare_plan, Preparable
    <2> QED BY <2>1, EmptySeq, LenProperties, ElementOfSeq
  <1>2. next_action_id \in Nat \ {0} /\ plans \in Seq(ActionPlanState)
    BY DEF TypeOK
  <1>3. \A i \in 1..n : NewAction(g[i], next_action_id + i - 1) \in PlannedAction
    <2> SUFFICES ASSUME NEW i \in 1..n
                 PROVE  NewAction(g[i], next_action_id + i - 1) \in PlannedAction
      OBVIOUS
    <2>1. next_action_id + i - 1 \in Nat \ {0} /\ 0 \in Nat
      BY <1>1, <1>2
    <2>2. "Prepared" \in ActionStatus /\ g[i] \in Node
      BY <1>1 DEF ActionStatus
    <2>3. /\ g[i].capability \in Capabilities /\ g[i].side_effect \in SideEffectClass
          /\ g[i].verification_required \in BOOLEAN
      BY <2>2, Zenon DEF Node
    <2> QED BY <2>1, <2>2, <2>3, Zenon DEF NewAction, PlannedAction, NoToken
  <1>4. np.actions \in [1..n -> PlannedAction]
    BY <1>3 DEF NewPlan
  <1>5. np.actions \in Seq(PlannedAction) /\ Len(np.actions) = n /\ DOMAIN np.actions = 1..n
    BY <1>1, <1>4
  <1>6. np \in ActionPlanState /\ np.cursor = 0 /\ np.status = "Ready"
    BY <1>5 DEF NewPlan, ActionPlanState, ActionPlanStatus
  <1>7. \A i \in 1..n :
          /\ np.actions[i].id = next_action_id + i - 1
          /\ np.actions[i].status = "Prepared"
          /\ np.actions[i].resume_token = FALSE /\ np.actions[i].rollback_token = NoToken
          /\ np.actions[i].capability = g[i].capability
          /\ np.actions[i].side_effect = g[i].side_effect
          /\ np.actions[i].verification_required = g[i].verification_required
    BY DEF NewPlan, NewAction
  <1>8. /\ plans' \in Seq(ActionPlanState)
        /\ Len(plans') = Len(plans) + 1 /\ DOMAIN plans' = 1..(Len(plans) + 1)
        /\ DOMAIN plans = 1..Len(plans) /\ Len(plans) \in Nat
        /\ \A q \in DOMAIN plans : q \in DOMAIN plans' /\ plans'[q] = plans[q]
        /\ plans'[Len(plans) + 1] = np
    BY <1>2, <1>6, LenProperties DEF prepare_plan, NewPlan
  <1>9. next_action_id' = next_action_id + n /\ reported' = reported
    BY DEF prepare_plan
  <1>10. PlanInv(np)
    <2>1. \A i \in 1..n : ValidAction(np.actions[i])
      BY <1>1, <1>7 DEF ValidAction, prepare_plan, Preparable
    <2> QED BY <2>1, <1>1, <1>5, <1>6, <1>7 DEF PlanInv
  <1>11. \A q \in DOMAIN plans' : PlanInv(plans'[q])
    BY <1>8, <1>10 DEF JournalInv
  <1>12. \A q \in DOMAIN plans' : \/ q \in DOMAIN plans /\ plans'[q] = plans[q]
                                  \/ q = Len(plans) + 1 /\ plans'[q] = np
    BY <1>8
  <1>13. ASSUME NEW q \in DOMAIN plans, NEW i \in DOMAIN plans[q].actions
         PROVE  plans[q].actions[i].id \in Nat /\ plans[q].actions[i].id < next_action_id
    <2>1. plans[q].actions \in Seq(PlannedAction)
      <3>1. plans[q] \in ActionPlanState
        BY <1>2, <1>8, ElementOfSeq
      <3> QED BY <3>1 DEF ActionPlanState
    <2>2. plans[q].actions[i] \in PlannedAction
      BY <2>1, ElementOfSeq, LenProperties
    <2> QED BY <2>2 DEF PlannedAction, JournalInv, ValidIds
  <1>ids. ASSUME NEW i \in DOMAIN np.actions
         PROVE  /\ i \in 1..n
                /\ np.actions[i].id = next_action_id + i - 1
                /\ np.actions[i].id >= next_action_id
                /\ np.actions[i].id < next_action_id'
    <2>1. i \in 1..n /\ np.actions[i].id = next_action_id + i - 1
      BY <1>5, <1>7
    <2> HIDE DEF np
    <2> QED BY <2>1, <1>1, <1>2, <1>9
  <1>14. ValidIds(plans', next_action_id')
    <2> HIDE DEF np
    <2>1. next_action_id' # 0
      BY <1>1, <1>2, <1>9
    <2>2. ASSUME NEW q \in DOMAIN plans', NEW i \in DOMAIN plans'[q].actions
          PROVE  plans'[q].actions[i].id < next_action_id'
      <3>1. CASE q \in DOMAIN plans /\ plans'[q] = plans[q]
        BY <1>1, <1>2, <1>9, <1>13, <3>1
      <3>2. CASE plans'[q] = np
        BY <1>ids, <3>2
      <3> QED BY <1>12, <3>1, <3>2
    <2>3. ASSUME NEW q \in DOMAIN plans', NEW i \in DOMAIN plans'[q].actions,
                 NEW r \in DOMAIN plans', NEW j \in DOMAIN plans'[r].actions,
                 plans'[q].actions[i].id = plans'[r].actions[j].id
          PROVE  q = r /\ i = j
      <3>1. CASE q \in DOMAIN plans /\ r \in DOMAIN plans
        BY <1>8, <2>3, <3>1 DEF JournalInv, ValidIds
      <3>2. CASE q = Len(plans) + 1 /\ r = Len(plans) + 1
        BY <1>1, <1>2, <1>8, <1>ids, <2>3, <3>2
      <3>3. CASE q \in DOMAIN plans /\ r = Len(plans) + 1
        BY <1>1, <1>2, <1>8, <1>13, <1>ids, <2>3, <3>3
      <3>4. CASE r \in DOMAIN plans /\ q = Len(plans) + 1
        BY <1>1, <1>2, <1>8, <1>13, <1>ids, <2>3, <3>4
      <3> QED BY <1>12, <3>1, <3>2, <3>3, <3>4
    <2> QED BY <2>1, <2>2, <2>3 DEF ValidIds
  <1>15. \A e \in reported' : e.id \in Nat /\ e.id < next_action_id /\ e.id < next_action_id'
    BY <1>1, <1>2, <1>9 DEF JournalInv, TypeOK, Effect
  <1>16. EffectInv(plans', reported')
    <2> SUFFICES ASSUME NEW e \in reported', NEW q \in DOMAIN plans',
                        NEW i \in DOMAIN plans'[q].actions,
                        e.accepted, e.id = plans'[q].actions[i].id
                 PROVE  q \in DOMAIN plans /\ plans'[q] = plans[q]
      BY <1>9 DEF JournalInv, EffectInv
    <2>1. CASE q = Len(plans) + 1 /\ plans'[q] = np
      <3> HIDE DEF np
      <3>1. np.actions[i].id \in Nat /\ np.actions[i].id >= next_action_id
        BY <1>1, <1>2, <1>ids, <2>1
      <3>2. e.id \in Nat /\ e.id < next_action_id /\ e.id = np.actions[i].id
        BY <1>15, <2>1
      <3> QED BY <1>2, <3>1, <3>2
    <2> QED BY <2>1, <1>12
  <1> QED BY <1>1, <1>2, <1>8, <1>9, <1>11, <1>14, <1>15, <1>16 DEF JournalInv

-----------------------------------------------------------------------------
(* Every call preserves the invariant.                                     *)

(* execute_next preserves the invariant of the journal, whatever the       *)
(* adapter and the verifier answer.                                        *)
LEMMA ExecuteInv ==
    ASSUME IInv, NEW p \in DOMAIN plans, NEW grant \in Grants, execute_next(p, grant)
    PROVE  /\ plans' \in Seq(ActionPlanState) /\ reported' \subseteq Effect
           /\ result' \in Results
           /\ JournalInv(plans', next_action_id, reported')
           /\ UNCHANGED <<next_action_id, adapters, saved>>
  <1> USE DEF IInv, JournalInv
  <1>0. UNCHANGED <<next_action_id, adapters, saved>> /\ result' \in Results
    BY DEF execute_next, execute_early_return, execute_missing_adapter, execute_adapter_error,
           execute_suspended, execute_retryable, execute_accepted, execute_verifier_retry,
           execute_rejected_undone, execute_rejected_failed,
           execute_rejected_rollback_failure, Results
  <1>a. reported \subseteq Effect /\ plans \in Seq(ActionPlanState)
    BY DEF TypeOK
  <1>1. CASE execute_early_return(p, grant)
    <2>1. ~(plans[p].status \notin TerminalPlan /\ Exhausted(p))
      <3>1. plans[p] \in ActionPlanState
        BY <1>a, ElementOfSeq
      <3>2. plans[p].cursor \in Nat /\ Len(plans[p].actions) \in Nat
        BY <3>1, LenProperties DEF ActionPlanState
      <3>3. PlanInv(plans[p])
        OBVIOUS
      <3> QED BY <3>2, <3>3 DEF PlanInv, Exhausted, TerminalPlan
    <2>2. UNCHANGED <<plans, reported>>
      BY <1>1, <2>1 DEF execute_early_return
    <2> QED BY <1>0, <1>a, <2>2
  (* The calls that get as far as the adapter lookup.                      *)
  <1> DEFINE reaches == Admitted(p, grant)
             cur == Current(p)
             k == plans[p].cursor
  <1>b. ASSUME reaches
        PROVE  /\ ~Exhausted(p) /\ cur \in PlannedAction /\ k \in Nat /\ k + 1 \in Nat
               /\ cur.output \in BOOLEAN /\ cur.resume_token \in BOOLEAN
               /\ cur.rollback_token \in Nat /\ cur.attempts + 1 \in Nat
               /\ cur.id \in Nat \ {0} /\ cur.id < next_action_id
               /\ cur.resume_token => Resumable[cur.capability]
               /\ cur.rollback_token # NoToken => RollbackSupported[cur.capability]
    <2>1. ~Exhausted(p)
      BY <1>b DEF Admitted
    <2>2. cur \in PlannedAction /\ k \in Nat /\ Index(p) \in 1..Len(plans[p].actions)
          /\ DOMAIN plans[p].actions = 1..Len(plans[p].actions)
      BY <2>1, CurrentType
    <2>3. /\ cur.output \in BOOLEAN /\ cur.resume_token \in BOOLEAN
          /\ cur.rollback_token \in Nat /\ cur.attempts \in Nat /\ cur.id \in Nat \ {0}
      BY <2>2, Zenon DEF PlannedAction
    <2>4. cur.id < next_action_id /\ ValidAction(cur)
      BY <2>2 DEF ValidIds, PlanInv, Current
    <2> QED BY <2>1, <2>2, <2>3, <2>4 DEF ValidAction
  <1>c. /\ {"Ready", "Suspended", "Completed", "Failed"} \subseteq ActionPlanStatus
        /\ {"Running", "Suspended", "Retryable", "Committed", "RolledBack", "Failed"}
             \subseteq ActionStatus
    BY DEF ActionPlanStatus, ActionStatus
  (* A call whose outcome keeps the reported effects.                      *)
  <1>d. ASSUME reaches, NEW s \in ActionStatus, NEW out \in BOOLEAN, NEW res \in BOOLEAN,
               NEW tok \in Nat, NEW st \in ActionPlanStatus, NEW c \in Nat,
               Outcome(p, s, out, res, tok, st, c),
               Journal(p, Entry(p, s, out, res, tok), st, c)
        PROVE  /\ plans' \in Seq(ActionPlanState)
               /\ JournalInv(plans', next_action_id, reported)
    BY <1>d, StepInv
  <1>2. CASE execute_missing_adapter(p, grant)
    <2>1. reaches /\ reported' = reported
      BY <1>2 DEF execute_missing_adapter, Started
    <2>2. Outcome(p, "Running", cur.output, cur.resume_token, cur.rollback_token, "Ready", k)
      BY <2>1, <1>b DEF Outcome
    <2>3. Journal(p, Entry(p, "Running", cur.output, cur.resume_token, cur.rollback_token), "Ready", k)
      BY <1>2 DEF execute_missing_adapter, Running, EntryKeeping
    <2> QED BY <1>0, <1>a, <1>b, <1>c, <1>d, <2>1, <2>2, <2>3
  <1>3. CASE execute_adapter_error(p, grant)
    <2>1. reaches /\ reported' = reported
      BY <1>3 DEF execute_adapter_error, Called, Started
    <2>2. Outcome(p, "Retryable", cur.output, FALSE, cur.rollback_token, "Ready", k)
      BY <2>1, <1>b DEF Outcome
    <2>3. Journal(p, Entry(p, "Retryable", cur.output, FALSE, cur.rollback_token), "Ready", k)
      BY <1>3 DEF execute_adapter_error, EntryKeeping
    <2> QED BY <1>0, <1>a, <1>b, <1>c, <1>d, <2>1, <2>2, <2>3
  (* An adapter that answers with resume state it may not have fails the   *)
  (* plan.                                                                 *)
  <1>e. ASSUME reaches, reported' = reported,
               Journal(p, EntryKeeping(p, "Failed", cur.resume_token), "Failed", k)
        PROVE  /\ plans' \in Seq(ActionPlanState) /\ reported' \subseteq Effect
               /\ JournalInv(plans', next_action_id, reported')
    <2>1. Outcome(p, "Failed", cur.output, cur.resume_token, cur.rollback_token, "Failed", k)
      BY <1>e, <1>b DEF Outcome
    <2>2. Journal(p, Entry(p, "Failed", cur.output, cur.resume_token, cur.rollback_token), "Failed", k)
      BY <1>e DEF EntryKeeping
    <2> QED BY <1>a, <1>b, <1>c, <1>d, <1>e, <2>1, <2>2
  <1>4. CASE execute_suspended(p, grant)
    <2>1. reaches /\ reported' = reported
      BY <1>4 DEF execute_suspended, Called, Started
    <2>2. CASE Resumable[cur.capability]
      <3>1. Outcome(p, "Suspended", cur.output, TRUE, cur.rollback_token, "Suspended", k)
        BY <2>1, <2>2, <1>b DEF Outcome
      <3>2. Journal(p, Entry(p, "Suspended", cur.output, TRUE, cur.rollback_token), "Suspended", k)
        BY <1>4, <2>2 DEF execute_suspended, EntryKeeping
      <3> QED BY <1>0, <1>a, <1>b, <1>c, <1>d, <2>1, <3>1, <3>2
    <2>3. CASE ~Resumable[cur.capability]
      BY <1>0, <1>4, <1>e, <2>1, <2>3 DEF execute_suspended
    <2> QED BY <2>2, <2>3
  <1>5. ASSUME NEW token \in BOOLEAN, execute_retryable(p, grant, token)
        PROVE  /\ plans' \in Seq(ActionPlanState) /\ reported' \subseteq Effect
               /\ JournalInv(plans', next_action_id, reported')
    <2>1. reaches /\ reported' = reported
      BY <1>5 DEF execute_retryable, Called, Started
    <2>2. CASE token => Resumable[cur.capability]
      <3>1. Outcome(p, "Retryable", cur.output, token, cur.rollback_token, "Ready", k)
        BY <2>1, <2>2, <1>b DEF Outcome
      <3>2. Journal(p, Entry(p, "Retryable", cur.output, token, cur.rollback_token), "Ready", k)
        BY <1>5, <2>2 DEF execute_retryable, EntryKeeping
      <3> QED BY <1>0, <1>a, <1>b, <1>c, <1>d, <2>1, <3>1, <3>2
    <2>3. CASE ~(token => Resumable[cur.capability])
      BY <1>0, <1>5, <1>e, <2>1, <2>3 DEF execute_retryable
    <2> QED BY <2>2, <2>3
  (* The calls that report an effect.                                      *)
  <1>f. ASSUME reaches, NEW accepted \in BOOLEAN, reported' = reported \cup NewEffects(p, accepted)
        PROVE  /\ reported' \subseteq Effect
               /\ \A e \in reported' : e.id < next_action_id
    <2>1. NewEffects(p, accepted) \subseteq Effect
      <3>1. cur.id \in Nat \ {0} /\ Attempt(p) \in Nat
        BY <1>f, <1>b DEF Attempt
      <3>2. [id |-> cur.id, serial |-> Attempt(p), accepted |-> accepted] \in Effect
        BY <3>1, Zenon DEF Effect
      <3> QED BY <3>2 DEF NewEffects
    <2>2. \A e \in NewEffects(p, accepted) : e.id = cur.id
      BY DEF NewEffects
    <2> QED BY <1>a, <1>b, <1>f, <2>1, <2>2
  <1>g. ASSUME reaches, reported' = reported \cup NewEffects(p, FALSE),
               EffectInv(plans', reported)
        PROVE  EffectInv(plans', reported')
    <2>1. \A e \in NewEffects(p, FALSE) : ~e.accepted
      BY DEF NewEffects
    <2> QED BY <1>g, <2>1 DEF EffectInv
  <1>6. ASSUME NEW token \in BOOLEAN, execute_accepted(p, grant, token)
        PROVE  /\ plans' \in Seq(ActionPlanState) /\ reported' \subseteq Effect
               /\ JournalInv(plans', next_action_id, reported')
    <2> DEFINE tok == KeptToken(p, token)
               a == Entry(p, "Committed", TRUE, FALSE, tok)
    <2>1. reaches /\ reported' = reported \cup NewEffects(p, TRUE)
      BY <1>6 DEF execute_accepted, Called, Started
    <2>2. tok \in Nat /\ (tok # NoToken => RollbackSupported[cur.capability] /\ tok = Attempt(p))
      BY <1>b, <2>1 DEF KeptToken, Attempt, NoToken
    <2>3. Outcome(p, "Committed", TRUE, FALSE, tok, advance_cursor(p), k + 1)
      BY <2>2 DEF Outcome
    <2>4. Journal(p, a, advance_cursor(p), k + 1)
      BY <1>6 DEF execute_accepted
    <2>5. advance_cursor(p) \in ActionPlanStatus
      BY <1>c DEF advance_cursor
    <2>6. /\ plans' \in Seq(ActionPlanState)
          /\ DOMAIN plans' = DOMAIN plans
          /\ JournalInv(plans', next_action_id, reported)
          /\ plans'[p].actions[Index(p)] = a
          /\ Index(p) \in DOMAIN plans'[p].actions
      <3>1. k + 1 \in Nat
        BY <1>b, <2>1
      <3> HIDE DEF tok
      <3> QED BY <1>c, <2>1, <2>2, <2>3, <2>4, <2>5, <3>1, StepInv
    <2>7. a.status = "Committed" /\ a.id = cur.id /\ a.side_effect = cur.side_effect
          /\ a.rollback_token = tok /\ a.capability = cur.capability
      <3>1. TypeOK /\ ~Exhausted(p) /\ tok \in Nat
        BY <1>b, <2>1, <2>2
      <3> HIDE DEF tok, IInv
      <3>2. \A s \in ActionStatus, out \in BOOLEAN, res \in BOOLEAN :
              LET b == Entry(p, s, out, res, tok) IN
              /\ b.status = s /\ b.id = cur.id /\ b.side_effect = cur.side_effect
              /\ b.rollback_token = tok /\ b.capability = cur.capability
        BY <3>1, EntryType
      <3>3. "Committed" \in ActionStatus /\ TRUE \in BOOLEAN /\ FALSE \in BOOLEAN
        BY <1>c
      <3> HIDE DEF cur
      <3> QED BY <3>2, <3>3, Zenon
    <2>8. ASSUME NEW e \in NewEffects(p, TRUE), NEW q \in DOMAIN plans',
                 NEW i \in DOMAIN plans'[q].actions, e.id = plans'[q].actions[i].id
          PROVE  /\ plans'[q].actions[i].status = "Committed"
                 /\ plans'[q].actions[i].side_effect # "ReadOnly"
                 /\ HasToken(plans'[q].actions[i]) => plans'[q].actions[i].rollback_token = e.serial
      <3>1. e.id = cur.id /\ e.serial = Attempt(p) /\ cur.side_effect # "ReadOnly"
        BY DEF NewEffects
      <3>2. q = p /\ i = Index(p)
        <4>1. ValidIds(plans', next_action_id)
          BY <2>6
        <4>2. plans'[p].actions[Index(p)].id = plans'[q].actions[i].id
          BY <2>6, <2>7, <2>8, <3>1
        <4> HIDE DEF IInv, JournalInv
        <4> QED BY <2>6, <4>1, <4>2 DEF ValidIds
      <3>3. plans'[q].actions[i] = a
        BY <2>6, <3>2
      <3> HIDE DEF a, tok, cur
      <3> QED BY <2>2, <2>7, <3>1, <3>3 DEF HasToken
    <2>9. EffectInv(plans', reported')
      <3>1. EffectInv(plans', reported)
        BY <2>6
      <3> HIDE DEF a, tok, IInv, JournalInv
      <3> SUFFICES ASSUME NEW e \in reported', NEW q \in DOMAIN plans',
                          NEW i \in DOMAIN plans'[q].actions,
                          e.accepted, e.id = plans'[q].actions[i].id
                   PROVE  /\ plans'[q].actions[i].status = "Committed"
                          /\ plans'[q].actions[i].side_effect # "ReadOnly"
                          /\ HasToken(plans'[q].actions[i]) =>
                               plans'[q].actions[i].rollback_token = e.serial
        BY DEF EffectInv
      <3>2. CASE e \in reported
        BY <3>1, <3>2, Zenon DEF EffectInv
      <3>3. CASE e \in NewEffects(p, TRUE)
        BY <2>8, <3>3
      <3> QED BY <2>1, <3>2, <3>3
    <2> QED BY <1>f, <2>1, <2>6, <2>9
  <1>7. ASSUME NEW token \in BOOLEAN, execute_verifier_retry(p, grant, token)
        PROVE  /\ plans' \in Seq(ActionPlanState) /\ reported' \subseteq Effect
               /\ JournalInv(plans', next_action_id, reported')
    <2> DEFINE tok == KeptToken(p, token)
    <2>1. reaches /\ reported' = reported \cup NewEffects(p, FALSE)
      BY <1>7 DEF execute_verifier_retry, Called, Started
    <2>2. tok \in Nat /\ (tok # NoToken => RollbackSupported[cur.capability])
      BY <1>b, <2>1 DEF KeptToken, Attempt, NoToken
    <2>3. Outcome(p, "Retryable", TRUE, FALSE, tok, "Ready", k)
      BY <2>2 DEF Outcome
    <2>4. Journal(p, Entry(p, "Retryable", TRUE, FALSE, tok), "Ready", k)
      BY <1>7 DEF execute_verifier_retry
    <2>5. plans' \in Seq(ActionPlanState) /\ JournalInv(plans', next_action_id, reported)
      BY <1>b, <1>c, <1>d, <2>1, <2>2, <2>3, <2>4
    <2> QED BY <1>f, <1>g, <2>1, <2>5
  <1>8. CASE execute_rejected_undone(p, grant)
    <2>1. reaches /\ reported' = reported /\ RollbackSupported[cur.capability]
      BY <1>8 DEF execute_rejected_undone, Called, Started, Revocable
    <2>2. Outcome(p, "RolledBack", TRUE, cur.resume_token, Attempt(p), "Failed", k)
      BY <1>b, <2>1 DEF Outcome
    <2>3. Journal(p, Entry(p, "RolledBack", TRUE, cur.resume_token, Attempt(p)), "Failed", k)
      BY <1>8 DEF execute_rejected_undone
    <2>4. Attempt(p) \in Nat
      BY <1>b, <2>1 DEF Attempt
    <2> QED BY <1>0, <1>a, <1>b, <1>c, <1>d, <2>1, <2>2, <2>3, <2>4
  <1>9. ASSUME NEW token \in BOOLEAN, execute_rejected_failed(p, grant, token)
        PROVE  /\ plans' \in Seq(ActionPlanState) /\ reported' \subseteq Effect
               /\ JournalInv(plans', next_action_id, reported')
    <2>1. reaches /\ reported' = reported \cup NewEffects(p, FALSE)
      BY <1>9 DEF execute_rejected_failed, Called, Started
    <2>2. Outcome(p, "Failed", TRUE, cur.resume_token, cur.rollback_token, "Failed", k)
      BY <1>b, <2>1 DEF Outcome
    <2>3. Journal(p, Entry(p, "Failed", TRUE, cur.resume_token, cur.rollback_token), "Failed", k)
      BY <1>9 DEF execute_rejected_failed
    <2>4. plans' \in Seq(ActionPlanState) /\ JournalInv(plans', next_action_id, reported)
      BY <1>b, <1>c, <1>d, <2>1, <2>2, <2>3
    <2> QED BY <1>f, <1>g, <2>1, <2>4
  <1>10. CASE execute_rejected_rollback_failure(p, grant)
    <2>1. reaches /\ reported' = reported \cup NewEffects(p, FALSE)
      BY <1>10 DEF execute_rejected_rollback_failure, Called, Started
    <2>2. Outcome(p, "Running", cur.output, cur.resume_token, cur.rollback_token, "Ready", k)
      BY <1>b, <2>1 DEF Outcome
    <2>3. Journal(p, Entry(p, "Running", cur.output, cur.resume_token, cur.rollback_token), "Ready", k)
      BY <1>10 DEF execute_rejected_rollback_failure, Running, EntryKeeping
    <2>4. plans' \in Seq(ActionPlanState) /\ JournalInv(plans', next_action_id, reported)
      BY <1>b, <1>c, <1>d, <2>1, <2>2, <2>3
    <2> QED BY <1>f, <1>g, <2>1, <2>4, <1>0
  <1> QED BY <1>0, <1>1, <1>2, <1>3, <1>4, <1>5, <1>6, <1>7, <1>8, <1>9, <1>10 DEF execute_next

(* rollback_plan, whether it undoes all of the plan or breaks off at k.    *)
LEMMA RollbackInv ==
    ASSUME IInv, NEW p \in DOMAIN plans,
           rollback_plan(p) \/ \E k \in DOMAIN plans[p].actions : rollback_plan_breaks_off(p, k)
    PROVE  /\ plans' \in Seq(ActionPlanState) /\ reported' \subseteq Effect
           /\ result' \in Results
           /\ JournalInv(plans', next_action_id, reported')
           /\ UNCHANGED <<next_action_id, adapters, saved>>
  <1>1. /\ TypeOK /\ ValidIds(plans, next_action_id) /\ EffectInv(plans, reported)
        /\ \A q \in DOMAIN plans : PlanInv(plans[q])
        /\ \A e \in reported : e.id < next_action_id
    BY DEF IInv, JournalInv
  <1>2. plans[p].status \in ActionPlanStatus /\ "RolledBack" \in ActionPlanStatus
        /\ reported \subseteq Effect
    <2>1. plans[p] \in ActionPlanState
      BY <1>1, ElementOfSeq DEF TypeOK
    <2> QED BY <1>1, <2>1 DEF ActionPlanState, ActionPlanStatus, TypeOK
  <1>3. CASE rollback_plan(p)
    <2>1. /\ \A i \in ToUndo(p) : HasToken(plans[p].actions[i])
          /\ Undo(p, ToUndo(p), "RolledBack")
          /\ result' \in Results /\ UNCHANGED <<next_action_id, adapters, saved>>
      BY <1>3 DEF rollback_plan, Undoable, Results
    <2> QED BY <1>1, <1>2, <2>1, UndoInv DEF JournalInv
  <1>4. CASE \E k \in DOMAIN plans[p].actions : rollback_plan_breaks_off(p, k)
    <2>1. PICK k \in DOMAIN plans[p].actions : rollback_plan_breaks_off(p, k)
      BY <1>4
    <2> DEFINE later == {i \in ToUndo(p) : i > k}
    <2>2. /\ \A i \in later : HasToken(plans[p].actions[i])
          /\ Undo(p, later, plans[p].status)
          /\ UNCHANGED <<next_action_id, adapters, saved>>
      BY <2>1 DEF rollback_plan_breaks_off, Undoable
    <2>3. result' \in Results
      BY <2>1 DEF rollback_plan_breaks_off, Results
    <2>4. later \in SUBSET ToUndo(p)
      OBVIOUS
    <2> HIDE DEF later
    <2> QED BY <1>1, <1>2, <2>2, <2>3, <2>4, UndoInv DEF JournalInv
  <1> QED BY <1>3, <1>4

(* The default journal satisfies the invariant.                            *)
LEMMA InitInv == Init => IInv
  <1> SUFFICES ASSUME Init PROVE IInv
    OBVIOUS
  <1>1. TypeOK
    BY DEF Init, TypeOK, Results
  <1>2. JournalInv(plans, next_action_id, reported)
    BY DEF Init, JournalInv, ValidIds, EffectInv
  <1>3. saved = NoCheckpoint
    BY DEF Init
  <1> QED BY <1>1, <1>2, <1>3 DEF IInv

(* Every call of the fabric, and a restart from its checkpoint, preserves  *)
(* the invariant.                                                          *)
LEMMA NextInv == IInv /\ [Next]_vars => IInv'
  <1> SUFFICES ASSUME IInv, [Next]_vars PROVE IInv'
    OBVIOUS
  <1>1. /\ TypeOK /\ JournalInv(plans, next_action_id, reported)
        /\ saved # NoCheckpoint => JournalInv(saved.plans, saved.next_action_id, saved.reported)
    BY DEF IInv
  <1>2. /\ plans \in Seq(ActionPlanState) /\ next_action_id \in Nat \ {0}
        /\ adapters \subseteq Capabilities /\ reported \subseteq Effect
        /\ saved \in Checkpoint \cup {NoCheckpoint}
    BY <1>1 DEF TypeOK
  <1>3. {"Ok", "Refused"} \subseteq Results
    BY DEF Results
  <1>4. CASE UNCHANGED vars
    BY <1>1, <1>4 DEF vars, IInv, TypeOK, JournalInv, ValidIds, EffectInv
  <1>5. ASSUME NEW c \in Capabilities, register_adapter(c)
        PROVE  IInv'
    <2>1. /\ UNCHANGED <<plans, next_action_id, reported, saved>>
          /\ adapters' \subseteq Capabilities /\ result' \in Results
      BY <1>2, <1>3, <1>5 DEF register_adapter
    <2> QED BY <1>1, <1>2, <2>1 DEF IInv, TypeOK
  <1>6. ASSUME NEW g \in Graphs, prepare_plan(g)
        PROVE  IInv'
    <2>1. UNCHANGED <<adapters, reported, saved>> /\ result' \in Results
      BY <1>3, <1>6 DEF prepare_plan
    <2>2. /\ plans' \in Seq(ActionPlanState) /\ next_action_id' \in Nat \ {0}
          /\ JournalInv(plans', next_action_id', reported')
      BY <1>1, <1>6, PrepareInv
    <2> QED BY <1>1, <1>2, <2>1, <2>2 DEF IInv, TypeOK
  <1>7. ASSUME NEW g \in Graphs, prepare_plan_refused(g)
        PROVE  IInv'
    <2>1. UNCHANGED <<plans, next_action_id, adapters, reported, saved>> /\ result' \in Results
      BY <1>3, <1>7 DEF prepare_plan_refused
    <2> QED BY <1>1, <1>2, <2>1 DEF IInv, TypeOK
  <1>8. ASSUME NEW p \in DOMAIN plans, NEW grant \in Grants, execute_next(p, grant)
        PROVE  IInv'
    <2>1. /\ plans' \in Seq(ActionPlanState) /\ reported' \subseteq Effect
          /\ result' \in Results
          /\ JournalInv(plans', next_action_id, reported')
          /\ UNCHANGED <<next_action_id, adapters, saved>>
      BY <1>8, ExecuteInv
    <2> QED BY <1>1, <1>2, <2>1 DEF IInv, TypeOK
  <1>9. ASSUME NEW p \in DOMAIN plans,
               rollback_plan(p) \/ \E k \in DOMAIN plans[p].actions : rollback_plan_breaks_off(p, k)
        PROVE  IInv'
    <2>1. /\ plans' \in Seq(ActionPlanState) /\ reported' \subseteq Effect
          /\ result' \in Results
          /\ JournalInv(plans', next_action_id, reported')
          /\ UNCHANGED <<next_action_id, adapters, saved>>
      BY <1>9, RollbackInv
    <2> QED BY <1>1, <1>2, <2>1 DEF IInv, TypeOK
  <1>10. CASE encode_action_fabric_checkpoint
    <2>1. /\ UNCHANGED <<plans, next_action_id, adapters, reported>> /\ result' \in Results
          /\ \/ saved' = saved
             \/ saved' = [plans |-> plans, next_action_id |-> next_action_id,
                          reported |-> reported]
      BY <1>3, <1>10 DEF encode_action_fabric_checkpoint
    <2>2. CASE saved' = saved
      BY <1>1, <1>2, <2>1, <2>2 DEF IInv, TypeOK
    <2>3. CASE saved' = [plans |-> plans, next_action_id |-> next_action_id,
                         reported |-> reported]
      <3>1. saved' \in Checkpoint
        BY <1>2, <2>3 DEF Checkpoint
      <3>2. saved'.plans = plans /\ saved'.next_action_id = next_action_id
            /\ saved'.reported = reported
        BY <2>3
      <3>3. TypeOK'
        BY <1>2, <2>1, <3>1 DEF TypeOK
      <3>4. JournalInv(saved'.plans, saved'.next_action_id, saved'.reported)
        BY <1>1, <3>2
      <3>5. JournalInv(plans', next_action_id', reported')
        BY <1>1, <2>1
      <3> QED BY <3>3, <3>4, <3>5 DEF IInv
    <2> QED BY <2>1, <2>2, <2>3
  <1>11. CASE from_state
    <2>1. /\ saved # NoCheckpoint /\ ValidIds(saved.plans, saved.next_action_id)
          /\ plans' = saved.plans /\ next_action_id' = saved.next_action_id
          /\ reported' = saved.reported /\ adapters' = {} /\ result' \in Results
          /\ saved' = saved
      BY <1>3, <1>11 DEF from_state, validate_fabric_state
    <2>2. saved.plans \in Seq(ActionPlanState) /\ saved.next_action_id \in Nat
          /\ saved.reported \subseteq Effect
      BY <1>2, <2>1 DEF Checkpoint
    <2>3. saved.next_action_id # 0
      BY <2>1 DEF ValidIds
    <2>4. TypeOK'
      BY <1>2, <2>1, <2>2, <2>3 DEF TypeOK
    <2> QED BY <1>1, <2>1, <2>4 DEF IInv
  <1> QED BY <1>4, <1>5, <1>6, <1>7, <1>8, <1>9, <1>10, <1>11 DEF Next

(* The journal, live or checkpointed, keeps its invariant under every call *)
(* of the fabric's methods.                                                *)
THEOREM Invariance == Spec => []IInv
  BY InitInv, NextInv, PTL DEF Spec

(* Every call leaves the fabric's fields with their types.                 *)
THEOREM TypeCorrect == Spec => []TypeOK
  <1>1. IInv => TypeOK
    BY DEF IInv
  <1> QED BY <1>1, Invariance, PTL

(* The journal passes validate_fabric_state, except for plans whose        *)
(* rollback_plan broke off.                                                *)
THEOREM Restorable == Spec => []JournalRestorable
  <1>1. IInv => JournalRestorable
    <2> SUFFICES ASSUME IInv, NEW p \in DOMAIN plans, ~Torn(plans[p])
                 PROVE  ValidPlan(plans[p])
      BY DEF IInv, JournalInv, JournalRestorable
    <2> DEFINE q == plans[p]
               n == Len(q.actions)
    <2>1. /\ q.cursor \in Nat /\ n \in Nat /\ DOMAIN q.actions = 1..n
          /\ q.status \in ActionPlanStatus
      <3>1. q \in ActionPlanState
        BY ElementOfSeq DEF IInv, TypeOK
      <3> QED BY <3>1, LenProperties DEF ActionPlanState
    <2>2. PlanInv(q)
      BY DEF IInv, JournalInv
    <2>3. q.status = "RolledBack" \/
            \A i \in 1..n : q.actions[i].status = "RolledBack" =>
                              q.status = "Failed" /\ i = q.cursor + 1
      BY <2>1 DEF Torn
    <2> HIDE DEF q
    <2>4. ASSUME NEW i \in 1..n
          PROVE  /\ ValidAction(q.actions[i])
                 /\ i <= q.cursor /\ q.status # "RolledBack" => q.actions[i].status = "Committed"
                 /\ i > q.cursor + 1 => q.actions[i].status = "Prepared"
      BY <2>1, <2>2, <2>3 DEF PlanInv
    <2>5. q.status = "Completed" =>
            q.cursor = n /\ \A i \in 1..n : q.actions[i].status = "Committed"
      BY <2>1, <2>2, <2>4 DEF PlanInv
    <2>6. ASSUME q.cursor < n
          PROVE  LET current == q.actions[q.cursor + 1] IN
                 /\ q.status = "Suspended" => current.status = "Suspended" /\ current.resume_token
                 /\ q.status = "Ready" => current.status \in {"Prepared", "Retryable", "Running"}
                 /\ q.status = "Failed" => current.status \in {"Failed", "RolledBack"}
      <3>1. q.cursor + 1 \in 1..n
        BY <2>1, <2>6
      <3> QED BY <2>1, <2>2, <2>3, <3>1 DEF PlanInv
    <2>7. q.cursor <= n
      BY <2>2 DEF PlanInv
    <2> QED BY <2>4, <2>5, <2>6, <2>7 DEF ValidPlan, q
  <1> QED BY <1>1, Invariance, PTL

(* A plan rollback_plan reported as rolled back has no accepted effect     *)
(* left.                                                                   *)
THEOREM UndoneEffects == Spec => []RolledBackIsUndone
  <1>1. IInv => RolledBackIsUndone
    <2> SUFFICES ASSUME IInv, NEW p \in DOMAIN plans, plans[p].status = "RolledBack",
                        NEW e \in reported, NEW i \in DOMAIN plans[p].actions,
                        e.accepted, e.id = plans[p].actions[i].id
                 PROVE  FALSE
      BY DEF RolledBackIsUndone
    <2>1. EffectInv(plans, reported) /\ PlanInv(plans[p])
      BY DEF IInv, JournalInv
    <2>2. plans[p].actions[i].status = "Committed" /\ plans[p].actions[i].side_effect # "ReadOnly"
      BY <2>1, Zenon DEF EffectInv
    <2>3. i \in 1..Len(plans[p].actions)
      <3>1. plans[p] \in ActionPlanState
        BY ElementOfSeq DEF IInv, TypeOK
      <3> QED BY <3>1, LenProperties DEF ActionPlanState
    <2> QED BY <2>1, <2>2, <2>3 DEF PlanInv
  <1> QED BY <1>1, Invariance, PTL

(* A Completed plan offers evidence for each of its actions.               *)
THEOREM Evidence == Spec => []CompletedHasEvidence
  <1>1. IInv => CompletedHasEvidence
    <2> SUFFICES ASSUME IInv, NEW p \in DOMAIN plans, plans[p].status = "Completed",
                        ~Torn(plans[p]), NEW i \in DOMAIN plans[p].actions
                 PROVE  plans[p].actions[i].status = "Committed" /\ plans[p].actions[i].output
      BY DEF CompletedHasEvidence
    <2>1. /\ plans[p].cursor \in Nat /\ Len(plans[p].actions) \in Nat
          /\ i \in 1..Len(plans[p].actions)
      <3>1. plans[p] \in ActionPlanState
        BY ElementOfSeq DEF IInv, TypeOK
      <3> QED BY <3>1, LenProperties DEF ActionPlanState
    <2>2. PlanInv(plans[p])
      BY DEF IInv, JournalInv
    <2>3. plans[p].actions[i].status # "RolledBack"
      BY DEF Torn
    <2> QED BY <2>1, <2>2, <2>3 DEF PlanInv
  <1> QED BY <1>1, Invariance, PTL

-----------------------------------------------------------------------------
(* Action properties: what a single call may do to a plan.                 *)

(* A call of execute_next changes no plan, or one that is not finished,    *)
(* and of that one only the action under its cursor.                       *)
LEMMA ExecuteStep ==
    ASSUME IInv, NEW p \in DOMAIN plans, NEW grant \in Grants, execute_next(p, grant)
    PROVE  \/ plans' = plans
           \/ /\ Admitted(p, grant)
              /\ \E a, s, c : plans' = [plans EXCEPT ![p] = Stepped(p, a, s, c)]
  <1>1. CASE execute_early_return(p, grant)
    <2>1. plans[p] \in ActionPlanState
      BY ElementOfSeq DEF IInv, TypeOK
    <2>2. plans[p].cursor \in Nat /\ Len(plans[p].actions) \in Nat
      BY <2>1, LenProperties DEF ActionPlanState
    <2>3. PlanInv(plans[p])
      BY DEF IInv, JournalInv
    <2>4. ~(plans[p].status \notin TerminalPlan /\ Exhausted(p))
      BY <2>2, <2>3 DEF PlanInv, Exhausted, TerminalPlan
    <2> QED BY <1>1, <2>4 DEF execute_early_return
  <1>2. CASE ~execute_early_return(p, grant)
    <2>1. Admitted(p, grant) /\ \E a, s, c : Journal(p, a, s, c)
      BY <1>2, Zenon
      DEF execute_next, execute_missing_adapter, execute_adapter_error, execute_suspended,
          execute_retryable, execute_accepted, execute_verifier_retry,
          execute_rejected_undone, execute_rejected_failed,
          execute_rejected_rollback_failure, Called, Started
    <2>2. PICK a, s, c : Journal(p, a, s, c)
      BY <2>1
    <2>3. plans' = [plans EXCEPT ![p] = Stepped(p, a, s, c)]
      BY <2>2, JournalStep
    <2> QED BY <2>1, <2>3
  <1> QED BY <1>1, <1>2

(* A call of rollback_plan undoes the writes of one plan from some action  *)
(* to the end of the plan.                                                 *)
LEMMA RollbackStep ==
    ASSUME NEW p \in DOMAIN plans,
           rollback_plan(p) \/ \E k \in DOMAIN plans[p].actions : rollback_plan_breaks_off(p, k)
    PROVE  \E U \in SUBSET ToUndo(p), st \in {plans[p].status, "RolledBack"} :
              /\ plans' = [plans EXCEPT ![p] = Undone(p, U, st)]
              /\ \/ U = ToUndo(p)
                 \/ \E k \in DOMAIN plans[p].actions : U = {i \in ToUndo(p) : i > k}
  <1>1. CASE rollback_plan(p)
    <2>1. Undo(p, ToUndo(p), "RolledBack")
      BY <1>1 DEF rollback_plan
    <2>2. plans' = [plans EXCEPT ![p] = Undone(p, ToUndo(p), "RolledBack")]
      BY <2>1 DEF Undo, Undone
    <2> QED BY <2>2
  <1>2. CASE \E k \in DOMAIN plans[p].actions : rollback_plan_breaks_off(p, k)
    <2>1. PICK k \in DOMAIN plans[p].actions : rollback_plan_breaks_off(p, k)
      BY <1>2
    <2> DEFINE later == {i \in ToUndo(p) : i > k}
    <2>2. Undo(p, later, plans[p].status)
      BY <2>1 DEF rollback_plan_breaks_off
    <2>3. later \in SUBSET ToUndo(p) /\ \E l \in DOMAIN plans[p].actions : later = {i \in ToUndo(p) : i > l}
      OBVIOUS
    <2> HIDE DEF later
    <2>4. plans' = [plans EXCEPT ![p] = Undone(p, later, plans[p].status)]
      BY <2>2 DEF Undo, Undone
    <2> QED BY <2>3, <2>4
  <1> QED BY <1>1, <1>2

(* Every step of the fabric is one of: a restart from the checkpoint; one  *)
(* that leaves the plans there were; a call of execute_next on a plan that *)
(* is not finished; a call of rollback_plan.                               *)
LEMMA PlanSteps ==
    ASSUME IInv, [Next]_vars
    PROVE  \/ Restored
           \/ \A q \in DOMAIN plans : plans'[q] = plans[q]
           \/ \E p \in DOMAIN plans : \E grant \in Grants :
                /\ Admitted(p, grant)
                /\ \E a, s, c : plans' = [plans EXCEPT ![p] = Stepped(p, a, s, c)]
           \/ \E p \in DOMAIN plans :
                \E U \in SUBSET ToUndo(p), st \in {plans[p].status, "RolledBack"} :
                  /\ plans' = [plans EXCEPT ![p] = Undone(p, U, st)]
                  /\ \/ U = ToUndo(p)
                     \/ \E k \in DOMAIN plans[p].actions : U = {i \in ToUndo(p) : i > k}
  <1>1. CASE UNCHANGED vars
    BY <1>1 DEF vars
  <1>2. ASSUME NEW c \in Capabilities, register_adapter(c)
        PROVE  plans' = plans
    BY <1>2 DEF register_adapter
  <1>3. ASSUME NEW g \in Graphs, prepare_plan(g)
        PROVE  \A q \in DOMAIN plans : plans'[q] = plans[q]
    <2>1. PICK np : plans' = Append(plans, np)
      BY <1>3, Zenon DEF prepare_plan
    <2> QED BY <2>1, LenProperties DEF IInv, TypeOK
  <1>4. ASSUME NEW g \in Graphs, prepare_plan_refused(g)
        PROVE  plans' = plans
    BY <1>4 DEF prepare_plan_refused
  <1>5. CASE encode_action_fabric_checkpoint
    BY <1>5 DEF encode_action_fabric_checkpoint
  <1>6. CASE from_state
    BY <1>6 DEF from_state, Restored
  <1>7. ASSUME NEW p \in DOMAIN plans, NEW grant \in Grants, execute_next(p, grant)
        PROVE  \/ plans' = plans
               \/ /\ Admitted(p, grant)
                  /\ \E a, s, c : plans' = [plans EXCEPT ![p] = Stepped(p, a, s, c)]
    BY <1>7, ExecuteStep
  <1>8. ASSUME NEW p \in DOMAIN plans,
               rollback_plan(p) \/ \E k \in DOMAIN plans[p].actions : rollback_plan_breaks_off(p, k)
        PROVE  \E U \in SUBSET ToUndo(p), st \in {plans[p].status, "RolledBack"} :
                  /\ plans' = [plans EXCEPT ![p] = Undone(p, U, st)]
                  /\ \/ U = ToUndo(p)
                     \/ \E k \in DOMAIN plans[p].actions : U = {i \in ToUndo(p) : i > k}
    BY <1>8, RollbackStep
  <1> QED BY <1>1, <1>2, <1>3, <1>4, <1>5, <1>6, <1>7, <1>8, Zenon DEF Next

(* The status rollback_plan leaves is one of a plan.                       *)
LEMMA PlanStatusType ==
    ASSUME IInv, NEW p \in DOMAIN plans, NEW st \in {plans[p].status, "RolledBack"}
    PROVE  st \in ActionPlanStatus
  <1>1. plans[p] \in ActionPlanState
    BY ElementOfSeq DEF IInv, TypeOK
  <1> QED BY <1>1 DEF ActionPlanState, ActionPlanStatus

(* What Undone leaves of each action of the plan: rollback_plan marks the  *)
(* actions in U and touches no other field of them.                        *)
LEMMA UndoneActions ==
    ASSUME IInv, NEW p \in DOMAIN plans, NEW U,
           NEW st \in ActionPlanStatus,
           NEW np, np = Undone(p, U, st)
    PROVE  /\ np.status = st /\ np.cursor = plans[p].cursor
           /\ DOMAIN np.actions = DOMAIN plans[p].actions
           /\ DOMAIN plans[p].actions \subseteq Nat
           /\ \A i \in DOMAIN plans[p].actions :
                /\ np.actions[i].attempts = plans[p].actions[i].attempts
                /\ np.actions[i].side_effect = plans[p].actions[i].side_effect
                /\ np.actions[i].status =
                     IF i \in U THEN "RolledBack" ELSE plans[p].actions[i].status
  <1> DEFINE acts == plans[p].actions
  <1>1. TypeOK
    BY DEF IInv
  <1>2. /\ \A i \in DOMAIN acts : acts[i] \in PlannedAction
        /\ Len(acts) \in Nat /\ DOMAIN acts = 1..Len(acts)
        /\ np.cursor = plans[p].cursor /\ np.status = st /\ DOMAIN np.actions = DOMAIN acts
        /\ \A i \in DOMAIN acts : np.actions[i] =
             IF i \in U THEN [acts[i] EXCEPT !.status = "RolledBack"] ELSE acts[i]
    BY <1>1, UndoneType
  <1>3. ASSUME NEW i \in DOMAIN acts
        PROVE  /\ np.actions[i].attempts = acts[i].attempts
               /\ np.actions[i].side_effect = acts[i].side_effect
               /\ np.actions[i].status = IF i \in U THEN "RolledBack" ELSE acts[i].status
    <2>1. CASE i \in U
      <3>1. np.actions[i] = [acts[i] EXCEPT !.status = "RolledBack"] /\ acts[i] \in PlannedAction
        BY <1>2, <2>1
      <3> QED BY <2>1, <3>1, UndoneAction, SMTT(40)
    <2>2. CASE i \notin U
      BY <1>2, <2>2
    <2> QED BY <2>1, <2>2
  <1> QED BY <1>2, <1>3

(* What rollback_plan undoes of a plan, all its writes or those after the  *)
(* action it broke off at, leaves no later write standing.                 *)
LEMMA UndoneBackwards ==
    ASSUME IInv, NEW p \in DOMAIN plans, NEW U \in SUBSET ToUndo(p),
           NEW st \in {plans[p].status, "RolledBack"},
           \/ U = ToUndo(p)
           \/ \E k \in DOMAIN plans[p].actions : U = {i \in ToUndo(p) : i > k},
           NEW np, np = Undone(p, U, st)
    PROVE  UndoStep(plans[p], np)
  <1> DEFINE acts == plans[p].actions
  <1>1. /\ DOMAIN np.actions = DOMAIN acts
        /\ DOMAIN acts \subseteq Nat
        /\ \A i \in DOMAIN acts :
             /\ np.actions[i].side_effect = acts[i].side_effect
             /\ np.actions[i].status = IF i \in U THEN "RolledBack" ELSE acts[i].status
    <2>0. st \in ActionPlanStatus
      BY PlanStatusType
    <2>1. /\ np.status = st /\ np.cursor = plans[p].cursor
          /\ DOMAIN np.actions = DOMAIN plans[p].actions
          /\ DOMAIN plans[p].actions \subseteq Nat
          /\ \A i \in DOMAIN plans[p].actions :
               /\ np.actions[i].attempts = plans[p].actions[i].attempts
               /\ np.actions[i].side_effect = plans[p].actions[i].side_effect
               /\ np.actions[i].status =
                    IF i \in U THEN "RolledBack" ELSE plans[p].actions[i].status
      BY <2>0, UndoneActions
    <2> QED BY <2>1
  <1>2. ASSUME NEW i \in U, NEW j \in DOMAIN acts, j > i, j \in ToUndo(p)
        PROVE  j \in U
    <2>1. i \in DOMAIN acts
      BY DEF ToUndo
    <2> QED BY <1>1, <1>2, <2>1
  <1>3. \A j \in DOMAIN acts : j \notin ToUndo(p) =>
          acts[j].side_effect = "ReadOnly" \/ acts[j].status \in {"Prepared", "RolledBack"}
    BY DEF ToUndo
  <1> QED BY <1>1, <1>2, <1>3 DEF UndoStep

(* rollback_plan undoes backwards, and a rejected output is undone before  *)
(* any later action of its plan ran.                                       *)
THEOREM UndoGoesBackwards == Spec => UndoInReverse
  <1>1. IInv /\ [Next]_vars =>
          [Restored \/ \A p \in DOMAIN plans : UndoStep(plans[p], plans'[p])]_vars
    <2> SUFFICES ASSUME IInv, [Next]_vars, ~Restored, NEW q \in DOMAIN plans
                 PROVE  UndoStep(plans[q], plans'[q])
      OBVIOUS
    <2>1. CASE \A r \in DOMAIN plans : plans'[r] = plans[r]
      BY <2>1 DEF UndoStep
    <2>2. ASSUME NEW p \in DOMAIN plans, NEW grant \in Grants, Admitted(p, grant),
                 NEW a, NEW s, NEW c, plans' = [plans EXCEPT ![p] = Stepped(p, a, s, c)]
          PROVE  UndoStep(plans[q], plans'[q])
      <3>1. CASE q # p
        BY <2>2, <3>1 DEF UndoStep
      <3>2. CASE q = p
        <4> DEFINE acts == plans[p].actions
        <4>1. /\ Index(p) \in DOMAIN acts /\ plans[p].cursor \in Nat
              /\ DOMAIN acts = 1..Len(acts) /\ Len(acts) \in Nat
          BY <2>2, CurrentType DEF Admitted, IInv
        <4>2. /\ DOMAIN plans'[p].actions = DOMAIN acts
              /\ \A i \in DOMAIN acts : i # Index(p) => plans'[p].actions[i] = acts[i]
          BY <2>2 DEF Stepped
        <4>3. \A i \in DOMAIN acts : i > Index(p) => acts[i].status = "Prepared"
          <5>1. PlanInv(plans[p])
            BY DEF IInv, JournalInv
          <5> QED BY <4>1, <5>1 DEF PlanInv, Index
        <4> QED BY <3>2, <4>1, <4>2, <4>3 DEF UndoStep
      <3> QED BY <3>1, <3>2
    <2>3. ASSUME NEW p \in DOMAIN plans, NEW U \in SUBSET ToUndo(p),
                 NEW st \in {plans[p].status, "RolledBack"},
                 plans' = [plans EXCEPT ![p] = Undone(p, U, st)],
                 \/ U = ToUndo(p)
                 \/ \E k \in DOMAIN plans[p].actions : U = {i \in ToUndo(p) : i > k}
          PROVE  UndoStep(plans[q], plans'[q])
      <3>1. CASE q # p
        BY <2>3, <3>1 DEF UndoStep
      <3>2. CASE q = p
        <4>1. plans'[p] = Undone(p, U, st)
          BY <2>3
        <4> QED BY <2>3, <3>2, <4>1, UndoneBackwards
      <3> QED BY <3>1, <3>2
    <2> QED BY <2>1, <2>2, <2>3, PlanSteps
  <1> QED BY <1>1, Invariance, PTL DEF Spec, UndoInReverse

(* A plan that is Completed, Failed or RolledBack is never executed again. *)
THEOREM FinishedIsFinal == Spec => FinishedStaysFinished
  <1>1. IInv /\ [Next]_vars =>
          [Restored \/ \A p \in DOMAIN plans : FinishedStep(plans[p], plans'[p])]_vars
    <2> SUFFICES ASSUME IInv, [Next]_vars, ~Restored, NEW q \in DOMAIN plans,
                        plans[q].status \in TerminalPlan
                 PROVE  FinishedStep(plans[q], plans'[q])
      BY DEF FinishedStep
    <2>1. CASE \A r \in DOMAIN plans : plans'[r] = plans[r]
      BY <2>1 DEF FinishedStep
    <2>2. ASSUME NEW p \in DOMAIN plans, NEW grant \in Grants, Admitted(p, grant),
                 NEW a, NEW s, NEW c, plans' = [plans EXCEPT ![p] = Stepped(p, a, s, c)]
          PROVE  FinishedStep(plans[q], plans'[q])
      <3>1. q # p
        BY <2>2 DEF Admitted
      <3> QED BY <2>2, <3>1 DEF FinishedStep
    <2>3. ASSUME NEW p \in DOMAIN plans, NEW U \in SUBSET ToUndo(p),
                 NEW st \in {plans[p].status, "RolledBack"},
                 plans' = [plans EXCEPT ![p] = Undone(p, U, st)]
          PROVE  FinishedStep(plans[q], plans'[q])
      <3>1. CASE q # p
        BY <2>3, <3>1 DEF FinishedStep
      <3>2. CASE q = p
        <4>1. plans'[p] = Undone(p, U, st)
          BY <2>3
        <4>2. st \in ActionPlanStatus
          BY PlanStatusType
        <4> QED BY <3>2, <4>1, <4>2, UndoneActions DEF FinishedStep
      <3> QED BY <3>1, <3>2
    <2> QED BY <2>1, <2>2, <2>3, PlanSteps
  <1> QED BY <1>1, Invariance, PTL DEF Spec, FinishedStaysFinished
=============================================================================
