-------------------------- MODULE RuleEngineProofs --------------------------
(***************************************************************************)
(* Proofs about RuleEngine, for any configurations, files and hosts.       *)
(***************************************************************************)
EXTENDS RuleEngine, TLAPS

-----------------------------------------------------------------------------
(* Configurations.                                                         *)

\* expandPaths changes no type.
LEMMA ExpandedTyped ==
  ASSUME NEW c \in Configuration PROVE expandPaths(c) \in Configuration
<1> DEFINE e(i) == ExpandedRule(c.rules[i])
           rs == [i \in DOMAIN c.rules |-> e(i)]
<1>1. c.rules \in Seq(Rule)
  BY DEF Configuration
<1>2. ASSUME NEW r \in Rule PROVE ExpandedRule(r) \in Rule
  <2> DEFINE as == [j \in DOMAIN r.actions |-> [r.actions[j] EXCEPT !.home = FALSE]]
  <2>1. r.actions \in Seq(ActionConfig)
    BY DEF Rule
  <2>2. \A j \in DOMAIN r.actions : [r.actions[j] EXCEPT !.home = FALSE] \in ActionConfig
    <3> TAKE j \in DOMAIN r.actions
    <3>1. r.actions[j] \in ActionConfig
      BY <2>1
    <3> QED
      BY <3>1 DEF ActionConfig
  <2>3. DOMAIN r.actions = 1..Len(r.actions) /\ Len(r.actions) \in Nat
    BY <2>1
  <2>4. as \in [1..Len(r.actions) -> ActionConfig]
    BY <2>2, <2>3
  <2>5. as \in Seq(ActionConfig)
    BY <2>3, <2>4
  <2> HIDE DEF as
  <2>6. [r EXCEPT !.actions = as] \in Rule
    BY <2>5 DEF Rule
  <2> QED
    BY <2>6, Zenon DEF ExpandedRule, as
<1>3. \A i \in DOMAIN c.rules : e(i) \in Rule
  BY <1>1, <1>2
<1> HIDE DEF e
<1>4. rs \in Seq(Rule)
  <2>1. DOMAIN c.rules = 1..Len(c.rules) /\ Len(c.rules) \in Nat
    BY <1>1
  <2>2. rs \in [1..Len(c.rules) -> Rule]
    BY <1>3, <2>1
  <2> QED
    BY <2>1, <2>2
<1> HIDE DEF rs
<1>5. [c EXCEPT !.rules = rs] \in Configuration
  BY <1>4 DEF Configuration
<1> QED
  BY <1>5, Zenon DEF expandPaths, rs, e

\* The action that is made of a configured one is one of its types.
LEMMA MadeOfItsTypes ==
  ASSUME NEW a, a.types \subseteq ActionTypes, a.types # {}
  PROVE  FromConfig(a) \in a.types
<1> DEFINE order == <<"move", "exec", "scp", "validate_zip", "notify">>
           First(i) == i \in 1..5 /\ order[i] \in a.types
                       /\ \A k \in 1..(i - 1) : order[k] \notin a.types
<1>1. /\ DOMAIN order = 1..5
      /\ order[1] = "move" /\ order[2] = "exec" /\ order[3] = "scp"
      /\ order[4] = "validate_zip" /\ order[5] = "notify"
  OBVIOUS
<1> HIDE DEF order
<1>2. \E i \in 1..5 : First(i)
  <2>1. \/ "move" \in a.types \/ "exec" \in a.types \/ "scp" \in a.types
        \/ "validate_zip" \in a.types \/ "notify" \in a.types
    BY DEF ActionTypes
  <2>2. CASE "move" \in a.types
    <3>1. First(1)
      BY <1>1, <2>2
    <3> QED BY <3>1
  <2>3. CASE "move" \notin a.types /\ "exec" \in a.types
    <3>1. First(2)
      BY <1>1, <2>3
    <3> QED BY <3>1
  <2>4. CASE "move" \notin a.types /\ "exec" \notin a.types /\ "scp" \in a.types
    <3>1. First(3)
      BY <1>1, <2>4
    <3> QED BY <3>1
  <2>5. CASE /\ "move" \notin a.types /\ "exec" \notin a.types /\ "scp" \notin a.types
             /\ "validate_zip" \in a.types
    <3>1. First(4)
      BY <1>1, <2>5
    <3> QED BY <3>1
  <2>6. CASE /\ "move" \notin a.types /\ "exec" \notin a.types /\ "scp" \notin a.types
             /\ "validate_zip" \notin a.types /\ "notify" \in a.types
    <3>1. First(5)
      BY <1>1, <2>6
    <3> QED BY <3>1
  <2> QED
    BY <2>1, <2>2, <2>3, <2>4, <2>5, <2>6
<1> DEFINE i == CHOOSE i \in DOMAIN order :
                  order[i] \in a.types /\ \A k \in 1..(i - 1) : order[k] \notin a.types
<1>3. i \in DOMAIN order /\ order[i] \in a.types
  BY <1>1, <1>2
<1> HIDE DEF i
<1>4. FirstIn(order, a.types) = order[i]
  BY <1>3 DEF FirstIn, i
<1>5. FromConfig(a) = order[i]
  BY <1>4 DEF FromConfig, order
<1> QED
  BY <1>3, <1>5

\* What Validate accepts NewEngine compiles, hooks included.
LEMMA ValidBuilds ==
  ASSUME NEW c \in Configuration, Validate(c) PROVE NewEngineSucceeds(c)
<1> SUFFICES ASSUME NEW i \in DOMAIN c.rules, NEW l \in Lists, NEW j \in DOMAIN c.rules[i][l]
             PROVE  Compiles(c, c.rules[i][l][j])
  BY DEF NewEngineSucceeds, Validate, validateRule, validateMatchRule
<1> DEFINE a == c.rules[i][l][j]
<1>1. c.rules[i] \in Rule
  BY DEF Configuration
<1>2. c.rules[i][l] \in Seq(ActionConfig)
  BY <1>1 DEF Rule, Lists
<1>3. a.types \subseteq ActionTypes
  <2>1. a \in ActionConfig
    BY <1>2
  <2> QED
    BY <2>1 DEF ActionConfig
<1>4. validateAction(c, a)
  BY DEF Validate, validateRule
<1> HIDE DEF a
<1>5. FromConfig(a) \in a.types
  BY <1>3, <1>4, MadeOfItsTypes DEF validateAction
<1>6. FromConfig(a) # "unknown"
  BY <1>3, <1>5 DEF ActionTypes
<1>7. FromConfig(a) = "scp" => HasPool(c)
  BY <1>4, <1>5 DEF validateAction, HasPool
<1> QED
  BY <1>6, <1>7 DEF Compiles, a

-----------------------------------------------------------------------------
(* The inductive invariant.                                                *)

Calm == {"idle", "offered", "rules"}
Alive == {"running", "closed"}

\* Only what Validate accepts is run.
Accepted ==
  /\ setup # "unbuildable"
  /\ setup \in Alive => Validate(cfg)
  /\ setup \notin Alive => At("idle")

\* Process begins with the first action of a rule, and an action with nothing read.
Starting ==
  /\ step.pc \in {"offered", "rules"} => step.list = "actions" /\ step.idx = 1
  /\ step.pc \in {"offered", "rules", "act"} => step.read = 0

\* In an action Process points at one that there is, of the right type.
Pointed ==
  step.pc \notin Calm =>
    /\ step.rule \in DOMAIN rules /\ step.idx \in DOMAIN TheRule[step.list]
    /\ At("copy") => Doing("move")
    /\ step.pc \in {"connect", "create", "upload", "flush", "leave"} => Doing("scp")
    /\ At("remove") => Doing("move") \/ Doing("scp")

\* getConn is called from where Process waits for it.
Calling == call.pc # "out" <=> At("connect")
HostKnown == At("connect") => call.host = Action.host

\* After Close the pool is empty, and Process does not get to an action.
ClosedFinally ==
  setup = "closed" =>
    ctxDone /\ step.pc \in Calm /\ agentConns = 0 /\ \A h \in HostNames : conns[h] = "none"

\* The size that was copied, as long as Process relies on it.
Copied ==
  /\ At("copy") => Present
  /\ step.pc \in {"upload", "flush", "remove"} \/ (At("leave") /\ step.ok) => step.read >= 1
  /\ At("remove") \/ (At("leave") /\ step.ok) => copies[Target] = step.read

IInv == TypeOK /\ Accepted /\ Starting /\ Pointed /\ Calling /\ HostKnown /\ ClosedFinally /\ Copied

FileState == [name : Names, ext : STRING, age : Int, zip : ZipStates, size : 0..MaxSize]
CopiesState == [Places -> {Partial} \cup 0..MaxSize]
RanState == Seq([list : Lists, idx : Nat \ {0}, ok : BOOLEAN])
Data ==
  /\ file \in FileState /\ copies \in CopiesState /\ ran \in RanState
  /\ session \in {"none", "open", "closed"} /\ ctxDone \in BOOLEAN /\ P!TypeOK
Setups == {"loading", "rejected", "unbuildable", "running", "closed"}

LEMMA TypesApart ==
  TypeOK <=> cfg \in Configuration /\ setup \in Setups /\ step \in StepState /\ Data
BY Zenon DEF TypeOK, Data, Setups, FileState, CopiesState, RanState

LEMMA TypesApartNext ==
  TypeOK' <=> cfg' \in Configuration /\ setup' \in Setups /\ step' \in StepState /\ Data'
BY Zenon DEF TypeOK, Data, Setups, FileState, CopiesState, RanState

LEMMA PoolKept == P!TypeOK /\ UNCHANGED poolVars => P!TypeOK'
BY DEF poolVars, P!TypeOK

\* What Process points at.
LEMMA PointedAt ==
  ASSUME TypeOK, Pointed, step.pc \notin Calm
  PROVE  /\ TheRule \in Rule /\ \A l \in Lists : TheRule[l] \in Seq(ActionConfig)
         /\ step.list \in Lists /\ Action \in ActionConfig
         /\ Action.host \in HostNames /\ Target \in Places
<1>1. rules \in Seq(Rule) /\ step.list \in Lists
  BY DEF TypeOK, Configuration, StepState, rules
<1>2. TheRule \in Rule
  BY <1>1 DEF Pointed, TheRule
<1>3. \A l \in Lists : TheRule[l] \in Seq(ActionConfig)
  BY <1>2 DEF Rule, Lists
<1>4. Action \in ActionConfig
  BY <1>1, <1>3 DEF Pointed, Action
<1>5. Action.host \in HostNames
  BY <1>4 DEF ActionConfig
<1> QED
  BY <1>1, <1>2, <1>3, <1>4, <1>5 DEF Target, Places

LEMMA SameAction ==
  ASSUME cfg' = cfg, step'.rule = step.rule, step'.list = step.list, step'.idx = step.idx
  PROVE  /\ rules' = rules /\ TheRule' = TheRule /\ Action' = Action /\ Target' = Target
         /\ \A t : Doing(t)' <=> Doing(t)
<1>1. rules' = rules
  BY DEF rules
<1>2. TheRule' = TheRule
  BY <1>1 DEF TheRule
<1>3. Action' = Action
  BY <1>2 DEF Action
<1>4. \A t : Doing(t)' <=> Doing(t)
  BY <1>3 DEF Doing
<1> QED
  BY <1>1, <1>2, <1>3, <1>4 DEF Target

Pcs == {"idle", "offered", "rules", "act", "copy", "connect", "create", "upload", "flush",
        "remove", "leave"}

LEMMA Sizes == MaxSize \in Nat /\ 0 \in 0..MaxSize /\ 1 \in 0..MaxSize
BY RuleEngineAssumption

\* step, field by field.
LEMMA StepFields ==
  ASSUME NEW s \in StepState
  PROVE  /\ s.pc \in Pcs /\ s.rule \in Nat \ {0} /\ s.list \in Lists /\ s.idx \in Nat \ {0}
         /\ s.dry \in BOOLEAN /\ s.size \in 0..MaxSize /\ s.read \in 0..MaxSize /\ s.ok \in BOOLEAN
BY DEF StepState, Pcs

LEMMA IdleMade ==
  ASSUME NEW r \in Nat \ {0}
  PROVE  [Idle EXCEPT !.rule = r] \in StepState /\ [Idle EXCEPT !.rule = r].pc = "idle"
<1>1. Idle \in StepState /\ Idle.pc = "idle"
  BY Sizes DEF Idle, StepState, Lists
<1>2. \A s \in StepState : [s EXCEPT !.rule = r] \in StepState /\ [s EXCEPT !.rule = r].pc = s.pc
  BY DEF StepState
<1> QED
  BY <1>1, <1>2

\* An action that ends leads to the next one or to the end of Process.
LEMMA FinishResult ==
  ASSUME TypeOK, Pointed, step.pc \notin Calm, cfg' = cfg, NEW ok \in BOOLEAN, Finish(ok)
  PROVE  /\ step' \in StepState /\ step'.pc \in {"act", "idle"} /\ Starting' /\ Pointed'
         /\ ran' \in RanState
         /\ ran' = Append(ran, [list |-> step.list, idx |-> step.idx, ok |-> ok])
<1> DEFINE list == NextList(ok)
           idx == IF list = step.list THEN step.idx + 1 ELSE 1
           on == [step EXCEPT !.pc = "act", !.list = list, !.idx = idx, !.read = 0, !.ok = FALSE]
           off == [Idle EXCEPT !.rule = step.rule]
<1>1. step' = IF idx <= Len(TheRule[list]) THEN on ELSE off
  BY DEF Finish
<1>2. step.idx \in Nat \ {0} /\ step.list \in Lists /\ step.rule \in Nat \ {0}
  BY DEF TypeOK, StepState
<1>3. list \in Lists
  BY <1>2 DEF NextList, Lists
<1>4. idx \in Nat \ {0}
  BY <1>2
<1> HIDE DEF list, idx
<1>5. /\ on \in StepState /\ on.pc = "act" /\ on.read = 0
      /\ on.rule = step.rule /\ on.list = list /\ on.idx = idx
  <2>1. step \in StepState /\ "act" \in Pcs
    BY DEF TypeOK, Pcs
  <2> HIDE DEF on
  <2>2. \A t : t = on => /\ t \in StepState /\ t.pc = "act" /\ t.rule = step.rule
                        /\ t.list = list /\ t.idx = idx /\ t.read = 0
    <3> SUFFICES ASSUME NEW t, t = [step EXCEPT !.pc = "act", !.list = list, !.idx = idx,
                                               !.read = 0, !.ok = FALSE]
                 PROVE  /\ t \in StepState /\ t.pc = "act" /\ t.rule = step.rule
                        /\ t.list = list /\ t.idx = idx /\ t.read = 0
      BY DEF on
    <3>1. t.pc = "act" /\ t.rule = step.rule /\ t.list = list /\ t.idx = idx /\ t.read = 0
      BY <2>1 DEF StepState
    <3>2. t \in StepState
      BY <1>3, <1>4, <2>1, Sizes DEF StepState, Pcs
    <3> QED
      BY <3>1, <3>2
  <2> QED
    BY <2>2
<1>6. off \in StepState /\ off.pc = "idle"
  BY <1>2, IdleMade
<1> HIDE DEF on, off
<1>7. step' \in StepState /\ step'.pc \in {"act", "idle"} /\ (step'.pc = "act" => step'.read = 0)
  BY <1>1, <1>5, <1>6
<1>8. Pointed'
  <2>1. CASE idx <= Len(TheRule[list])
    <3>1. step' = on /\ step'.rule = step.rule /\ step'.list = list /\ step'.idx = idx
      BY <1>1, <1>5, <2>1
    <3>2. rules' = rules /\ TheRule' = TheRule
      BY <3>1 DEF rules, TheRule
    <3>3. TheRule[list] \in Seq(ActionConfig)
      BY <1>3, PointedAt
    <3>4. idx \in DOMAIN TheRule[list]
      BY <1>4, <2>1, <3>3
    <3>5. step'.pc = "act" /\ step'.rule \in DOMAIN rules' /\ step'.idx \in DOMAIN TheRule'[step'.list]
      BY <1>5, <3>1, <3>2, <3>4 DEF Pointed
    <3> QED
      BY <3>5 DEF Pointed, At
  <2>2. CASE ~(idx <= Len(TheRule[list]))
    BY <1>1, <1>6, <2>2 DEF Pointed, Calm
  <2> QED
    BY <2>1, <2>2
<1>9. ran' = Append(ran, [list |-> step.list, idx |-> step.idx, ok |-> ok])
  BY DEF Finish
<1>10. ran' \in RanState
  BY <1>2, <1>9 DEF TypeOK, RanState
<1>11. Starting'
  BY <1>7 DEF Starting
<1> QED
  BY <1>7, <1>8, <1>9, <1>10, <1>11
-----------------------------------------------------------------------------
(* What is alike in many steps.                                            *)

\* The pool: getConn goes on for the host it was asked for, until it is out.
LEMMA PoolAsked ==
  ASSUME P!TypeOK, NEW h \in HostNames, P!GetConn(h)
  PROVE  P!TypeOK' /\ call'.pc # "out" /\ call'.host = h
BY RuleEngineAssumption DEF P!TypeOK, P!GetConn, P!At

LEMMA PoolGoesOn ==
  ASSUME P!TypeOK, P!Check \/ P!Authenticate \/ P!Connect
  PROVE  P!TypeOK' /\ call'.pc # "out" /\ call'.host = call.host
<1>1. CASE P!Check
  BY <1>1, RuleEngineAssumption DEF P!TypeOK, P!Check, P!At, P!Goto
<1>2. CASE P!Authenticate
  BY <1>2, RuleEngineAssumption DEF P!TypeOK, P!Authenticate, P!At, P!Goto
<1>3. CASE P!Connect
  BY <1>3, RuleEngineAssumption DEF P!TypeOK, P!Connect, P!At, P!Goto
<1> QED
  BY <1>1, <1>2, <1>3

LEMMA PoolLeft ==
  ASSUME P!TypeOK, P!Session \/ P!Fail
  PROVE  P!TypeOK' /\ call'.pc = "out"
BY DEF P!TypeOK, P!Session, P!Fail, P!Out

LEMMA PoolDies ==
  ASSUME P!TypeOK, NEW h \in HostNames, P!Dies(h) PROVE P!TypeOK' /\ call' = call
BY DEF P!TypeOK, P!Dies

LEMMA PoolClosed ==
  ASSUME P!TypeOK, P!Close
  PROVE  /\ P!TypeOK' /\ call' = call
         /\ agentConns' = 0 /\ \A h \in HostNames : conns'[h] = "none"
BY RuleEngineAssumption DEF P!TypeOK, P!Close

\* The file and its copies.
LEMMA FileGone == ASSUME file \in FileState, Gone PROVE file' \in FileState
BY Sizes DEF FileState, Gone

LEMMA CopyPut ==
  ASSUME copies \in CopiesState, Target \in Places, NEW z \in {Partial} \cup 0..MaxSize, Put(z)
  PROVE  copies' \in CopiesState /\ copies'[Target] = z
BY DEF CopiesState, Put

LEMMA FileSize ==
  ASSUME file \in FileState
  PROVE  /\ file.size \in 0..MaxSize /\ file.size \in {Partial} \cup 0..MaxSize
         /\ (Present => file.size >= 1)
BY Sizes DEF FileState, Present

\* A step within an action.
LEMMA Stays ==
  ASSUME IInv, step.pc \notin Calm, cfg' = cfg, setup' = setup, step' \in StepState, Data',
         Starting', Pointed', Calling', HostKnown', Copied'
  PROVE  IInv'
<1>1. TypeOK'
  BY TypesApart, TypesApartNext, Zenon DEF IInv
<1>2. setup \in Alive /\ setup # "closed"
  BY DEF IInv, Accepted, ClosedFinally, At, Calm
<1>3. Accepted' /\ ClosedFinally'
  BY <1>2 DEF IInv, Accepted, ClosedFinally
<1> QED
  BY <1>1, <1>3 DEF IInv

\* One that ends the action.
LEMMA Ends ==
  ASSUME IInv, step.pc \notin Calm, cfg' = cfg, setup' = setup, NEW ok \in BOOLEAN, Finish(ok),
         file' \in FileState, copies' \in CopiesState, session' \in {"none", "open", "closed"},
         ctxDone' \in BOOLEAN, P!TypeOK', call'.pc = "out"
  PROVE  IInv'
<1>1. /\ step' \in StepState /\ step'.pc \in {"act", "idle"} /\ Starting' /\ Pointed'
      /\ ran' \in RanState
  BY FinishResult DEF IInv
<1>2. Data'
  BY <1>1 DEF Data
<1>3. Calling' /\ HostKnown' /\ Copied'
  BY <1>1 DEF Calling, HostKnown, Copied, At
<1> QED
  BY <1>1, <1>2, <1>3, Stays

\* One that leads to another place in it.
LEMMA Proceeds ==
  ASSUME IInv, step.pc \notin Calm, cfg' = cfg, setup' = setup, Data',
         step' \in StepState, step'.pc \notin Calm, step'.pc # "act",
         step'.rule = step.rule, step'.list = step.list, step'.idx = step.idx,
         step'.pc = "copy" => Doing("move"),
         step'.pc \in {"connect", "create", "upload", "flush", "leave"} => Doing("scp"),
         step'.pc = "remove" => Doing("move") \/ Doing("scp"),
         Calling', HostKnown', Copied'
  PROVE  IInv'
<1>1. rules' = rules /\ TheRule' = TheRule /\ Action' = Action
  BY SameAction
<1>2. Doing("move")' <=> Doing("move")
  BY <1>1 DEF Doing
<1>3. Doing("scp")' <=> Doing("scp")
  BY <1>1 DEF Doing
<1>4. Pointed'
  BY <1>1, <1>2, <1>3 DEF IInv, Pointed, At
<1>5. Starting'
  BY DEF Starting, Calm
<1> QED
  BY <1>4, <1>5, Stays
LEMMA Typed ==
  ASSUME IInv
  PROVE  /\ TypeOK /\ cfg \in Configuration /\ setup \in Setups /\ step \in StepState
         /\ file \in FileState /\ copies \in CopiesState /\ ran \in RanState
         /\ session \in {"none", "open", "closed"} /\ ctxDone \in BOOLEAN /\ P!TypeOK
BY TypesApart DEF IInv, Data

\* The same two, of a step that does not touch the pool.
LEMMA EndsAlone ==
  ASSUME IInv, step.pc \notin Calm, step.pc # "connect", UNCHANGED <<cfg, setup, poolVars>>,
         NEW ok \in BOOLEAN, Finish(ok),
         file' \in FileState, copies' \in CopiesState, session' \in {"none", "open", "closed"},
         ctxDone' \in BOOLEAN
  PROVE  IInv'
<1>1. P!TypeOK'
  BY Typed, PoolKept
<1>2. call'.pc = "out"
  BY DEF IInv, Calling, At, poolVars
<1> QED
  BY <1>1, <1>2, Ends

LEMMA ProceedsAlone ==
  ASSUME IInv, step.pc \notin Calm, step.pc # "connect", UNCHANGED <<cfg, setup, ran, ctxDone, poolVars>>,
         file' \in FileState, copies' \in CopiesState, session' \in {"none", "open", "closed"},
         step' \in StepState, step'.rule = step.rule, step'.list = step.list, step'.idx = step.idx,
         step'.pc \in {"copy", "create", "upload", "flush", "remove", "leave"},
         step'.pc = "copy" => Doing("move"),
         step'.pc \in {"create", "upload", "flush", "leave"} => Doing("scp"),
         step'.pc = "remove" => Doing("move") \/ Doing("scp"),
         Copied'
  PROVE  IInv'
<1>1. P!TypeOK'
  BY Typed, PoolKept
<1>2. Data'
  BY <1>1, Typed DEF Data
<1>3. call.pc = "out" /\ call' = call
  BY DEF IInv, Calling, At, poolVars
<1>4. Calling' /\ HostKnown'
  BY <1>3 DEF Calling, HostKnown, At
<1>5. step'.pc \notin Calm /\ step'.pc # "connect" /\ step'.pc # "act"
  BY DEF Calm
<1> QED
  BY <1>2, <1>4, <1>5, Proceeds

\* What the actions make of step.
LEMMA WentTo ==
  ASSUME step \in StepState, NEW p \in Pcs, Goto(p)
  PROVE  /\ step' \in StepState /\ step'.pc = p /\ step'.read = step.read /\ step'.ok = step.ok
         /\ step'.rule = step.rule /\ step'.list = step.list /\ step'.idx = step.idx
BY DEF StepState, Pcs, Goto

LEMMA WentReading ==
  ASSUME step \in StepState, NEW p \in Pcs, NEW n \in 0..MaxSize,
         step' = [step EXCEPT !.pc = p, !.read = n]
  PROVE  /\ step' \in StepState /\ step'.pc = p /\ step'.read = n /\ step'.ok = step.ok
         /\ step'.rule = step.rule /\ step'.list = step.list /\ step'.idx = step.idx
BY DEF StepState, Pcs

LEMMA WentSending ==
  ASSUME step \in StepState, NEW p \in Pcs, NEW n \in 0..MaxSize,
         step' = [step EXCEPT !.pc = p, !.size = n]
  PROVE  /\ step' \in StepState /\ step'.pc = p /\ step'.read = step.read /\ step'.ok = step.ok
         /\ step'.rule = step.rule /\ step'.list = step.list /\ step'.idx = step.idx
BY DEF StepState, Pcs

LEMMA Left ==
  ASSUME step \in StepState, NEW ok \in BOOLEAN, Leave(ok)
  PROVE  /\ step' \in StepState /\ step'.pc = "leave" /\ step'.read = step.read /\ step'.ok = ok
         /\ step'.rule = step.rule /\ step'.list = step.list /\ step'.idx = step.idx
BY DEF StepState, Leave

-----------------------------------------------------------------------------
(* move, exec, validate_zip, notify.                                       *)

LEMMA ExecStep == ASSUME IInv, Exec PROVE IInv'
<1>1. PICK ok \in BOOLEAN, keeps \in BOOLEAN :
        (file' = IF keeps THEN file ELSE [file EXCEPT !.size = 0]) /\ Finish(ok)
  BY DEF Exec
<1>2. file' \in FileState
  BY <1>1, Typed, Sizes DEF FileState
<1>3. /\ step.pc = "act" /\ UNCHANGED <<cfg, setup, copies, session, ctxDone, poolVars>>
  BY DEF Exec, At
<1>4. step.pc \notin Calm /\ step.pc # "connect"
  BY <1>3 DEF Calm
<1> QED
  BY <1>1, <1>2, <1>3, <1>4, Typed, EndsAlone

\* Those that change nothing but step and ran.
LEMMA PlainEnd ==
  ASSUME IInv, step.pc \in {"act", "copy", "remove"}, NEW ok \in BOOLEAN, Finish(ok),
         UNCHANGED <<cfg, setup, file, copies, session, ctxDone, poolVars>>
  PROVE  IInv'
<1>1. step.pc \notin Calm /\ step.pc # "connect"
  BY DEF Calm
<1> QED
  BY <1>1, Typed, EndsAlone

LEMMA PlainEnds ==
  ASSUME IInv, ValidateZip \/ Notify \/ MoveFails \/ CopyFails \/ ScpFails PROVE IInv'
<1>1. CASE ValidateZip
  BY <1>1, PlainEnd DEF ValidateZip, At
<1>2. CASE Notify
  <2>1. Resolves \in BOOLEAN
    BY DEF Resolves
  <2>2. Finish(Resolves) /\ step.pc = "act" /\ UNCHANGED <<cfg, setup, file, copies, session, ctxDone, poolVars>>
    BY <1>2 DEF Notify, At
  <2> QED
    BY <2>1, <2>2, PlainEnd
<1>3. CASE MoveFails
  BY <1>3, PlainEnd DEF MoveFails, At
<1>4. CASE CopyFails
  BY <1>4, PlainEnd DEF CopyFails, ReturnsCopyError, At
<1>5. CASE ScpFails
  BY <1>5, PlainEnd DEF ScpFails, At
<1> QED
  BY <1>1, <1>2, <1>3, <1>4, <1>5

LEMMA RenameStep == ASSUME IInv, Rename PROVE IInv'
<1>1. /\ step.pc = "act" /\ Put(file.size) /\ Gone /\ Finish(TRUE)
      /\ UNCHANGED <<cfg, setup, session, ctxDone, poolVars>>
  BY DEF Rename, At
<1>2. step.pc \notin Calm /\ step.pc # "connect"
  BY <1>1 DEF Calm
<1>3. Target \in Places
  BY <1>2, PointedAt DEF IInv
<1>4. file' \in FileState /\ copies' \in CopiesState
  BY <1>1, <1>3, Typed, FileGone, CopyPut, FileSize
<1> QED
  BY <1>1, <1>2, <1>4, Typed, EndsAlone

LEMMA OpenCopyStep == ASSUME IInv, OpenCopy PROVE IInv'
<1>1. /\ step.pc = "act" /\ Doing("move") /\ Present /\ Put(Partial) /\ Goto("copy")
      /\ UNCHANGED <<cfg, setup, file, ran, session, ctxDone, poolVars>>
  BY DEF OpenCopy, At
<1>2. step.pc \notin Calm /\ step.pc # "connect" /\ "copy" \in Pcs
  BY <1>1 DEF Calm, Pcs
<1>3. Target \in Places
  BY <1>2, PointedAt DEF IInv
<1>4. copies' \in CopiesState
  BY <1>1, <1>3, Typed, CopyPut
<1>5. /\ step' \in StepState /\ step'.pc = "copy"
      /\ step'.rule = step.rule /\ step'.list = step.list /\ step'.idx = step.idx
  BY <1>1, <1>2, Typed, WentTo
<1>6. Copied'
  BY <1>1, <1>5 DEF Copied, At, Present
<1> QED
  BY <1>1, <1>2, <1>4, <1>5, <1>6, Typed, ProceedsAlone

LEMMA CopyStep == ASSUME IInv, Copy PROVE IInv'
<1>1. /\ step.pc = "copy" /\ Put(file.size) /\ step' = [step EXCEPT !.pc = "remove", !.read = file.size]
      /\ UNCHANGED <<cfg, setup, file, ran, session, ctxDone, poolVars>>
  BY DEF Copy, At
<1>2. step.pc \notin Calm /\ step.pc # "connect" /\ "remove" \in Pcs
  BY <1>1 DEF Calm, Pcs
<1>3. Target \in Places
  BY <1>2, PointedAt DEF IInv
<1>4. copies' \in CopiesState /\ copies'[Target] = file.size
  BY <1>1, <1>3, Typed, CopyPut, FileSize
<1>5. /\ step' \in StepState /\ step'.pc = "remove" /\ step'.read = file.size
      /\ step'.rule = step.rule /\ step'.list = step.list /\ step'.idx = step.idx
  BY <1>1, <1>2, Typed, FileSize, WentReading
<1>6. Doing("move") /\ file.size >= 1
  BY <1>1, <1>2, Typed, FileSize DEF IInv, Pointed, Copied, At
<1>7. Target' = Target
  BY <1>1, <1>5, SameAction
<1>8. Copied'
  BY <1>4, <1>5, <1>6, <1>7 DEF Copied, At
<1> QED
  BY <1>1, <1>2, <1>4, <1>5, <1>6, <1>8, Typed, ProceedsAlone
-----------------------------------------------------------------------------
(* scp.                                                                    *)

LEMMA AskPoolStep == ASSUME IInv, AskPool PROVE IInv'
<1>1. /\ step.pc = "act" /\ Doing("scp") /\ P!GetConn(Action.host) /\ Goto("connect")
      /\ UNCHANGED <<cfg, setup, file, copies, ran, session, ctxDone>>
  BY DEF AskPool, At
<1>2. step.pc \notin Calm /\ "connect" \in Pcs
  BY <1>1 DEF Calm, Pcs
<1>3. Action.host \in HostNames
  BY <1>2, PointedAt DEF IInv
<1>4. P!TypeOK' /\ call'.pc # "out" /\ call'.host = Action.host
  BY <1>1, <1>3, Typed, PoolAsked
<1>5. /\ step' \in StepState /\ step'.pc = "connect"
      /\ step'.rule = step.rule /\ step'.list = step.list /\ step'.idx = step.idx
  BY <1>1, <1>2, Typed, WentTo
<1>6. Action' = Action
  BY <1>1, <1>5, SameAction
<1>7. Data'
  BY <1>1, <1>4, Typed DEF Data
<1>8. Calling' /\ HostKnown' /\ Copied'
  BY <1>4, <1>5, <1>6 DEF Calling, HostKnown, Copied, At
<1>9. step'.pc \notin Calm
  BY <1>5 DEF Calm
<1> QED
  BY <1>1, <1>2, <1>5, <1>7, <1>8, <1>9, Proceeds

LEMMA ConnectingStep == ASSUME IInv, Connecting PROVE IInv'
<1>1. /\ step.pc = "connect" /\ (P!Check \/ P!Authenticate \/ P!Connect)
      /\ UNCHANGED <<cfg, setup, file, copies, step, ran, session, ctxDone>>
  BY DEF Connecting, At
<1>2. P!TypeOK' /\ call'.pc # "out" /\ call'.host = call.host
  BY <1>1, Typed, PoolGoesOn
<1>3. Action' = Action
  BY <1>1, SameAction
<1>4. Data'
  BY <1>1, <1>2, Typed DEF Data
<1>5. Calling' /\ HostKnown' /\ Copied'
  BY <1>1, <1>2, <1>3 DEF IInv, Calling, HostKnown, Copied, At
<1>6. step.pc \notin Calm /\ step'.pc \notin Calm /\ Doing("scp")
  BY <1>1 DEF Calm, IInv, Pointed
<1> QED
  BY <1>1, <1>4, <1>5, <1>6, Typed, Proceeds

LEMMA PoolFailsStep == ASSUME IInv, PoolFails PROVE IInv'
<1>1. /\ step.pc = "connect" /\ P!Fail /\ Finish(FALSE)
      /\ UNCHANGED <<cfg, setup, file, copies, session, ctxDone>>
  BY DEF PoolFails, At
<1>2. P!TypeOK' /\ call'.pc = "out"
  BY <1>1, Typed, PoolLeft
<1>3. step.pc \notin Calm
  BY <1>1 DEF Calm
<1> QED
  BY <1>1, <1>2, <1>3, Typed, Ends

LEMMA OpenSessionStep == ASSUME IInv, OpenSession PROVE IInv'
<1>1. /\ step.pc = "connect" /\ P!Session /\ Goto("create") /\ session' = "open"
      /\ UNCHANGED <<cfg, setup, file, copies, ran, ctxDone>>
  BY DEF OpenSession, At
<1>2. step.pc \notin Calm /\ "create" \in Pcs
  BY <1>1 DEF Calm, Pcs
<1>3. P!TypeOK' /\ call'.pc = "out"
  BY <1>1, Typed, PoolLeft
<1>4. /\ step' \in StepState /\ step'.pc = "create"
      /\ step'.rule = step.rule /\ step'.list = step.list /\ step'.idx = step.idx
  BY <1>1, <1>2, Typed, WentTo
<1>5. Data'
  BY <1>1, <1>3, Typed DEF Data
<1>6. Calling' /\ HostKnown' /\ Copied'
  BY <1>3, <1>4 DEF Calling, HostKnown, Copied, At
<1>7. Doing("scp") /\ step'.pc \notin Calm
  BY <1>1, <1>2, <1>4 DEF IInv, Pointed, Calm
<1> QED
  BY <1>1, <1>2, <1>4, <1>5, <1>6, <1>7, Proceeds

\* Where the file is sent it is the source of an upload.
LEMMA Uploading ==
  ASSUME IInv, step.pc \in {"create", "upload", "flush", "leave"}
  PROVE  step.pc \notin Calm /\ step.pc # "connect" /\ Doing("scp") /\ Target \in Places
<1>1. step.pc \notin Calm /\ step.pc # "connect"
  BY DEF Calm
<1>2. Doing("scp")
  BY <1>1 DEF IInv, Pointed
<1> QED
  BY <1>1, <1>2, PointedAt DEF IInv

LEMMA CreateStep == ASSUME IInv, Create PROVE IInv'
<1>1. /\ step.pc = "create" /\ Present /\ Put(Partial)
      /\ step' = [step EXCEPT !.pc = "upload", !.read = file.size]
      /\ UNCHANGED <<cfg, setup, file, ran, session, ctxDone, poolVars>>
  BY DEF Create, UploadMid, At
<1>2. copies' \in CopiesState
  BY <1>1, Uploading, Typed, CopyPut
<1>3. /\ step' \in StepState /\ step'.pc = "upload" /\ step'.read = file.size
      /\ step'.rule = step.rule /\ step'.list = step.list /\ step'.idx = step.idx
  BY <1>1, Typed, FileSize, WentReading DEF Pcs
<1>4. Copied'
  BY <1>1, <1>3, Typed, FileSize DEF Copied, At
<1> QED
  BY <1>1, <1>2, <1>3, <1>4, Uploading, Typed, ProceedsAlone

LEMMA UploadStep == ASSUME IInv, Upload PROVE IInv'
<1>1. /\ step.pc = "upload" /\ step' = [step EXCEPT !.pc = "flush", !.size = file.size]
      /\ UNCHANGED <<cfg, setup, file, copies, ran, session, ctxDone, poolVars>>
  BY DEF Upload, UploadMid, At
<1>2. /\ step' \in StepState /\ step'.pc = "flush" /\ step'.read = step.read
      /\ step'.rule = step.rule /\ step'.list = step.list /\ step'.idx = step.idx
  BY <1>1, Typed, FileSize, WentSending DEF Pcs
<1>3. Copied'
  BY <1>1, <1>2 DEF IInv, Copied, At
<1> QED
  BY <1>1, <1>2, <1>3, Uploading, Typed, ProceedsAlone

LEMMA FlushStep == ASSUME IInv, Flush PROVE IInv'
<1>1. /\ step.pc = "flush" /\ Put(step.size)
      /\ UNCHANGED <<cfg, setup, file, ran, session, ctxDone, poolVars>>
  BY DEF Flush, UploadMid, At
<1>2. step.size \in {Partial} \cup 0..MaxSize
  BY Typed, StepFields
<1>3. copies' \in CopiesState /\ copies'[Target] = step.size
  BY <1>1, <1>2, Uploading, Typed, CopyPut
<1>4. step.read >= 1
  BY <1>1 DEF IInv, Copied
<1>5. CASE step.size # step.read
  <2>1. Leave(FALSE)
    BY <1>5 DEF Flush
  <2>2. /\ step' \in StepState /\ step'.pc = "leave" /\ step'.ok = FALSE
        /\ step'.rule = step.rule /\ step'.list = step.list /\ step'.idx = step.idx
    BY <2>1, Typed, Left
  <2>3. Copied'
    BY <2>2 DEF Copied, At
  <2> QED
    BY <1>1, <1>3, <2>2, <2>3, Uploading, Typed, ProceedsAlone
<1>6. CASE step.size = step.read
  <2>1. Goto("remove") \/ Leave(TRUE)
    BY <1>6 DEF Flush
  <2>2. /\ step' \in StepState /\ step'.pc \in {"remove", "leave"} /\ step'.read = step.read
        /\ step'.rule = step.rule /\ step'.list = step.list /\ step'.idx = step.idx
    BY <2>1, Typed, Left, WentTo DEF Pcs
  <2>3. Target' = Target
    BY <1>1, <2>2, SameAction
  <2>4. Copied'
    BY <1>3, <1>4, <1>6, <2>2, <2>3 DEF Copied, At
  <2> QED
    BY <1>1, <1>3, <2>2, <2>4, Uploading, Typed, ProceedsAlone
<1> QED
  BY <1>5, <1>6

LEMMA UploadFailsStep == ASSUME IInv, UploadFails PROVE IInv'
<1>1. /\ step.pc \in {"create", "upload", "flush"} /\ Leave(FALSE)
      /\ UNCHANGED <<cfg, setup, file, copies, ran, session, ctxDone, poolVars>>
  BY DEF UploadFails, AfterUploadError, UploadMid, At
<1>2. /\ step' \in StepState /\ step'.pc = "leave" /\ step'.ok = FALSE
      /\ step'.rule = step.rule /\ step'.list = step.list /\ step'.idx = step.idx
  BY <1>1, Typed, Left
<1>3. Copied'
  BY <1>2 DEF Copied, At
<1> QED
  BY <1>1, <1>2, <1>3, Uploading, Typed, ProceedsAlone

\* The result of scp, when it may still change: see CloseSession.
LEMMA LeavesStep ==
  ASSUME IInv, step.pc = "remove", Doing("scp"), NEW ok \in BOOLEAN, Leave(ok), file' \in FileState,
         UNCHANGED <<cfg, setup, copies, ran, session, ctxDone, poolVars>>
  PROVE  IInv'
<1>1. /\ step' \in StepState /\ step'.pc = "leave" /\ step'.read = step.read
      /\ step'.rule = step.rule /\ step'.list = step.list /\ step'.idx = step.idx
  BY Typed, Left
<1>2. Target' = Target
  BY <1>1, SameAction
<1>3. Copied'
  BY <1>1, <1>2 DEF IInv, Copied, At
<1>4. step.pc \notin Calm /\ step.pc # "connect"
  BY DEF Calm
<1> QED
  BY <1>1, <1>3, <1>4, Typed, ProceedsAlone

LEMMA RemoveSourceStep == ASSUME IInv, RemoveSource PROVE IInv'
<1>1. /\ step.pc = "remove" /\ Gone
      /\ UNCHANGED <<cfg, setup, copies, session, ctxDone, poolVars>>
  BY DEF RemoveSource, At
<1>2. file' \in FileState
  BY <1>1, Typed, FileGone
<1>3. CASE Doing("scp")
  BY <1>1, <1>2, <1>3, LeavesStep DEF RemoveSource
<1>4. CASE ~Doing("scp")
  <2>1. Finish(TRUE)
    BY <1>4 DEF RemoveSource
  <2>2. step.pc \notin Calm /\ step.pc # "connect"
    BY <1>1 DEF Calm
  <2> QED
    BY <1>1, <1>2, <2>1, <2>2, Typed, EndsAlone
<1> QED
  BY <1>3, <1>4

LEMMA RemoveFailsStep == ASSUME IInv, RemoveFails PROVE IInv'
<1>1. step.pc = "remove" /\ UNCHANGED <<cfg, setup, file, copies, session, ctxDone, poolVars>>
  BY DEF RemoveFails, At
<1>2. CASE Doing("scp")
  BY <1>1, <1>2, Typed, LeavesStep DEF RemoveFails
<1>3. CASE ~Doing("scp")
  BY <1>1, <1>3, PlainEnd DEF RemoveFails
<1> QED
  BY <1>2, <1>3

LEMMA CloseSessionStep == ASSUME IInv, CloseSession PROVE IInv'
<1>1. /\ step.pc = "leave" /\ session' = "none"
      /\ UNCHANGED <<cfg, setup, file, copies, ctxDone, poolVars>>
  BY DEF CloseSession, At
<1>2. PICK closed \in BOOLEAN : Finish(step.ok /\ closed)
  BY DEF CloseSession
<1>3. (step.ok /\ closed) \in BOOLEAN
  OBVIOUS
<1> QED
  BY <1>1, <1>2, <1>3, Uploading, Typed, EndsAlone
-----------------------------------------------------------------------------
(* Process between the actions, and the rest of the program.               *)

LEMMA Resting ==
  ASSUME IInv, step.pc \in Calm, cfg' = cfg, setup' = setup, Data', step' \in StepState,
         Starting', Pointed', call'.pc = "out", step'.pc \in Calm \cup {"act"},
         setup \in Alive \/ step'.pc = "idle", setup # "closed" \/ step'.pc \in Calm,
         UNCHANGED <<ctxDone, conns, agentConns>>
  PROVE  IInv'
<1>1. TypeOK'
  BY TypesApart, TypesApartNext, Zenon DEF IInv
<1>2. Accepted' /\ ClosedFinally'
  BY DEF IInv, Accepted, ClosedFinally, At
<1>3. step'.pc \notin {"connect", "copy", "upload", "flush", "remove", "leave"}
  BY DEF Calm
<1>4. Calling' /\ HostKnown' /\ Copied'
  BY <1>3 DEF Calling, HostKnown, Copied, At
<1> QED
  BY <1>1, <1>2, <1>4 DEF IInv

LEMMA CalmFacts ==
  ASSUME IInv, step.pc \in Calm
  PROVE  call.pc = "out" /\ (setup \in Alive \/ step.pc = "idle")
BY DEF IInv, Calm, Calling, Accepted, At

LEMMA RestingAlone ==
  ASSUME IInv, step.pc \in Calm, UNCHANGED <<cfg, setup, file, copies, session, ctxDone, poolVars>>,
         step' \in StepState, ran' \in RanState, Starting', Pointed',
         step'.pc \in Calm \cup {"act"}, setup \in Alive \/ step'.pc = "idle",
         setup # "closed" \/ step'.pc \in Calm
  PROVE  IInv'
<1>1. P!TypeOK'
  BY Typed, PoolKept
<1>2. Data'
  BY <1>1, Typed DEF Data
<1>3. call'.pc = "out" /\ conns' = conns /\ agentConns' = agentConns
  BY CalmFacts DEF poolVars
<1> QED
  BY <1>2, <1>3, Resting

LEMMA OfferStep == ASSUME IInv, Offer PROVE IInv'
<1>1. /\ setup \in Alive /\ step.pc = "idle" /\ step' = [Idle EXCEPT !.pc = "offered"] /\ ran' = <<>>
      /\ UNCHANGED <<cfg, setup, file, copies, session, ctxDone, poolVars>>
  BY DEF Offer, Alive, At
<1>2. /\ step' \in StepState /\ step'.pc = "offered" /\ step'.list = "actions" /\ step'.idx = 1
      /\ step'.read = 0
  <2>1. Idle \in StepState /\ Idle.list = "actions" /\ Idle.idx = 1 /\ Idle.read = 0
    BY Sizes DEF Idle, StepState, Lists
  <2> QED
    BY <1>1, <2>1 DEF StepState
<1>3. Starting' /\ Pointed'
  BY <1>2 DEF Starting, Pointed, Calm
<1>4. ran' \in RanState
  BY <1>1 DEF RanState
<1> QED
  BY <1>1, <1>2, <1>3, <1>4, RestingAlone DEF Calm

LEMMA CalmSteps == ASSUME IInv, Process \/ StatFails \/ PassOver \/ NothingToDo PROVE IInv'
<1>1. step.pc \in Calm /\ setup \in Alive /\ Mid
  BY DEF IInv, Accepted, Process, StatFails, PassOver, NothingToDo, At, Calm
<1>2. step' \in StepState /\ step'.pc \in Calm /\ Starting'
  <2>1. CASE Process
    <3>1. PICK dry \in BOOLEAN : step' = [step EXCEPT !.pc = "rules", !.dry = dry, !.size = file.size]
      BY <2>1 DEF Process
    <3> QED
      BY <2>1, Typed, FileSize DEF IInv, Process, Starting, At, StepState, Calm
  <2>2. CASE PassOver
    <3>1. step' = [step EXCEPT !.rule = @ + 1] /\ step.pc \in Calm
      BY <1>1, <2>2 DEF PassOver
    <3> QED
      BY <3>1, Typed DEF IInv, Starting, StepState
  <2>3. CASE StatFails \/ NothingToDo
    <3>1. step' = Idle
      BY <2>3 DEF StatFails, NothingToDo
    <3>2. Idle \in StepState
      BY Sizes DEF Idle, StepState, Lists
    <3> QED
      BY <3>1, <3>2 DEF Idle, Starting, Calm
  <2> QED
    BY <2>1, <2>2, <2>3
<1>3. Pointed'
  BY <1>2 DEF Pointed
<1> QED
  BY <1>1, <1>2, <1>3, Typed, RestingAlone DEF Mid

\* After Close the context is done, so that no action starts.
LEMMA StartStep == ASSUME IInv, StartActions PROVE IInv'
<1>1. /\ step.pc = "rules" /\ step.rule <= Len(rules) /\ ~ctxDone /\ HasActions(TheRule)
      /\ Goto("act") /\ Mid
  BY DEF StartActions, At, WorksOn
<1>2. step.pc \in Calm /\ setup \in Alive /\ setup # "closed"
  BY <1>1 DEF IInv, Accepted, ClosedFinally, At, Calm
<1>3. /\ step' \in StepState /\ step'.pc = "act" /\ step'.read = step.read
      /\ step'.rule = step.rule /\ step'.list = step.list /\ step'.idx = step.idx
  BY <1>1, Typed, WentTo DEF Pcs
<1>4. Starting'
  BY <1>1, <1>3 DEF IInv, Starting
<1>5. Pointed'
  <2>1. rules \in Seq(Rule)
    BY Typed DEF Configuration, rules
  <2>2. step.rule \in DOMAIN rules
    BY <1>1, <2>1, Typed, StepFields
  <2>3. rules' = rules /\ TheRule' = TheRule
    BY <1>1, <1>3, SameAction DEF Mid
  <2>4. step.idx \in DOMAIN TheRule[step.list]
    <3>1. TheRule.actions \in Seq(ActionConfig)
      <4>1. TheRule \in Rule
        BY <2>1, <2>2 DEF TheRule
      <4> QED
        BY <4>1 DEF Rule
    <3>2. 1 \in DOMAIN TheRule.actions
      BY <1>1, <3>1 DEF HasActions
    <3>3. step.list = "actions" /\ step.idx = 1
      BY <1>1 DEF IInv, Starting
    <3> QED
      BY <3>2, <3>3
  <2> QED
    BY <1>3, <2>2, <2>3, <2>4 DEF Pointed, At
<1> QED
  BY <1>1, <1>2, <1>3, <1>4, <1>5, Typed, RestingAlone DEF Mid
LEMMA NotRun == ASSUME IInv, step' = step, cfg' = cfg PROVE Starting' /\ Pointed' /\ Target' = Target /\ Action' = Action
<1>1. /\ rules' = rules /\ TheRule' = TheRule /\ Action' = Action /\ Target' = Target
  BY SameAction
<1>2. Doing("move")' <=> Doing("move")
  BY <1>1 DEF Doing
<1>3. Doing("scp")' <=> Doing("scp")
  BY <1>1 DEF Doing
<1> QED
  BY <1>1, <1>2, <1>3 DEF IInv, Starting, Pointed, At

\* What happens to the file, to a connection and to the context.
LEMMA Outside ==
  ASSUME IInv, UNCHANGED <<cfg, setup, step, copies, call>>, Data', Present => Present',
         setup # "closed" \/ UNCHANGED <<ctxDone, conns, agentConns>>
  PROVE  IInv'
<1>1. TypeOK'
  BY Typed, TypesApartNext
<1>2. Accepted' /\ ClosedFinally'
  BY DEF IInv, Accepted, ClosedFinally, At
<1>3. Starting' /\ Pointed' /\ Target' = Target /\ Action' = Action
  BY NotRun
<1>4. Calling' /\ HostKnown' /\ Copied'
  BY <1>3 DEF IInv, Calling, HostKnown, Copied, At
<1> QED
  BY <1>1, <1>2, <1>3, <1>4 DEF IInv

LEMMA GrowStep == ASSUME IInv, Grow PROVE IInv'
<1>1. /\ setup = "running"
      /\ UNCHANGED <<cfg, setup, copies, step, ran, session, ctxDone, poolVars>>
  BY DEF Grow
<1>2. PICK z \in 1..MaxSize : file' = [file EXCEPT !.size = z]
  BY DEF Grow
<1>3. file' \in FileState /\ file'.size = z /\ z > 0
  BY <1>2, Typed, Sizes DEF FileState
<1>4. Present'
  BY <1>3 DEF Present
<1>5. P!TypeOK' /\ call' = call
  BY <1>1, Typed, PoolKept DEF poolVars
<1>6. Data'
  BY <1>1, <1>3, <1>5, Typed DEF Data
<1> QED
  BY <1>1, <1>4, <1>5, <1>6, Outside

LEMMA DiesStep == ASSUME IInv, NEW h \in HostNames, ConnectionDies(h) PROVE IInv'
<1>1. /\ setup = "running" /\ P!Dies(h)
      /\ UNCHANGED <<cfg, setup, file, copies, step, ran, session, ctxDone>>
  BY DEF ConnectionDies
<1>2. P!TypeOK' /\ call' = call
  BY <1>1, Typed, PoolDies
<1>3. Data' /\ (Present => Present')
  BY <1>1, <1>2, Typed DEF Data, Present
<1> QED
  BY <1>1, <1>2, <1>3, Outside

LEMMA ContextSteps == ASSUME IInv, Cancel \/ CancelUpload PROVE IInv'
<1>1. /\ UNCHANGED <<cfg, setup, file, copies, step, ran, poolVars>>
      /\ session' \in {"none", "open", "closed"} /\ ctxDone' \in BOOLEAN
      /\ setup = "running" \/ ctxDone' = ctxDone
  BY Typed DEF Cancel, CancelUpload, SessionClosed
<1>2. P!TypeOK' /\ UNCHANGED <<call, conns, agentConns>>
  BY <1>1, Typed, PoolKept DEF poolVars
<1>3. Data' /\ (Present => Present')
  BY <1>1, <1>2, Typed DEF Data, Present
<1> QED
  BY <1>1, <1>2, <1>3, Outside

LEMMA CloseStep == ASSUME IInv, ClosePool PROVE IInv'
<1>1. /\ setup = "running" /\ ctxDone /\ step.pc = "idle" /\ setup' = "closed" /\ P!Close
      /\ UNCHANGED <<cfg, file, copies, step, ran, session, ctxDone>>
  BY DEF ClosePool, At
<1>2. /\ P!TypeOK' /\ call' = call
      /\ agentConns' = 0 /\ \A h \in HostNames : conns'[h] = "none"
  BY <1>1, Typed, PoolClosed
<1>3. Data'
  BY <1>1, <1>2, Typed DEF Data
<1>4. TypeOK'
  BY <1>1, <1>3, Typed, TypesApartNext DEF Setups
<1>5. Accepted' /\ ClosedFinally'
  BY <1>1, <1>2 DEF IInv, Accepted, ClosedFinally, Calm, Alive
<1>6. Starting' /\ Pointed' /\ Target' = Target /\ Action' = Action
  BY <1>1, NotRun
<1>7. Calling' /\ HostKnown' /\ Copied'
  BY <1>1, <1>2 DEF IInv, Calling, HostKnown, Copied, At
<1> QED
  BY <1>4, <1>5, <1>6, <1>7 DEF IInv

\* What Load accepts can be compiled.
LEMMA LoadStep == ASSUME IInv, Load PROVE IInv'
<1>1. /\ setup = "loading" /\ cfg' = expandPaths(cfg)
      /\ UNCHANGED <<file, copies, step, ran, session, ctxDone, poolVars>>
  BY DEF Load
<1>2. cfg' \in Configuration
  BY <1>1, Typed, ExpandedTyped
<1>3. Validate(cfg') => NewEngineSucceeds(cfg')
  BY <1>2, ValidBuilds
<1>4. setup' \in {"rejected", "running"} /\ (setup' = "running" => Validate(cfg'))
  BY <1>3 DEF Load
<1>5. step.pc = "idle" /\ step' = step
  BY <1>1 DEF IInv, Accepted, Alive, At
<1>6. P!TypeOK' /\ UNCHANGED <<call, conns, agentConns>>
  BY <1>1, Typed, PoolKept DEF poolVars
<1>7. TypeOK'
  <2>1. Data'
    BY <1>1, <1>6, Typed DEF Data
  <2>2. setup' \in Setups
    BY <1>4 DEF Setups
  <2> QED
    BY <1>1, <1>2, <2>1, <2>2, Typed, TypesApartNext
<1>8. Accepted' /\ ClosedFinally'
  BY <1>4, <1>5 DEF Accepted, ClosedFinally, At, Alive
<1>9. Starting' /\ Pointed'
  BY <1>5 DEF Starting, Pointed, Calm
<1>10. call.pc = "out"
  BY <1>5, CalmFacts DEF Calm
<1>11. Calling' /\ HostKnown' /\ Copied'
  BY <1>5, <1>6, <1>10 DEF Calling, HostKnown, Copied, At
<1> QED
  BY <1>7, <1>8, <1>9, <1>11 DEF IInv

LEMMA Start == Init => IInv
<1> SUFFICES ASSUME Init PROVE IInv
  OBVIOUS
<1>1. /\ cfg \in Configuration /\ setup = "loading" /\ step = Idle /\ ran = <<>>
      /\ session = "none" /\ ctxDone = FALSE /\ copies = [p \in Places |-> 0]
  BY RuleEngineAssumption DEF Init
<1>2. Idle \in StepState /\ Idle.pc = "idle"
  BY Sizes DEF Idle, StepState, Lists
<1>3. file \in FileState
  <2>1. PICK f \in Files : file = [name |-> f.name, ext |-> f.ext, age |-> f.age, zip |-> f.zip, size |-> 1]
    BY DEF Init
  <2>2. f \in [name : Names, ext : STRING, age : Int, zip : ZipStates]
    BY RuleEngineAssumption
  <2> QED
    BY <2>1, <2>2, Sizes DEF FileState
<1>4. P!TypeOK /\ call.pc = "out"
  BY RuleEngineAssumption DEF Init, P!Init, P!TypeOK, P!Out
<1>5. copies \in CopiesState /\ ran \in RanState
  BY <1>1, Sizes DEF CopiesState, RanState
<1>6. TypeOK
  BY <1>1, <1>2, <1>3, <1>4, <1>5, TypesApart DEF Data, Setups
<1>7. Accepted /\ Starting /\ Pointed /\ Calling /\ HostKnown /\ ClosedFinally /\ Copied
  BY <1>1, <1>2, <1>4
     DEF Accepted, Starting, Pointed, Calling, HostKnown, ClosedFinally, Copied, At, Alive, Calm
<1> QED
  BY <1>6, <1>7 DEF IInv
-----------------------------------------------------------------------------
(* Theorems.                                                               *)

LEMMA Steps == IInv /\ [Next]_vars => IInv'
<1> SUFFICES ASSUME IInv, [Next]_vars PROVE IInv'
  OBVIOUS
<1>1. CASE Load
  BY <1>1, LoadStep
<1>2. CASE Cancel \/ CancelUpload
  BY <1>2, ContextSteps
<1>3. CASE ClosePool
  BY <1>3, CloseStep
<1>4. CASE Grow
  BY <1>4, GrowStep
<1>5. CASE \E h \in HostNames : ConnectionDies(h)
  BY <1>5, DiesStep
<1>6. CASE Offer
  BY <1>6, OfferStep
<1>7. CASE ProcessStep
  <2>1. CASE Process \/ StatFails \/ PassOver \/ NothingToDo
    BY <2>1, CalmSteps
  <2>2. CASE StartActions
    BY <2>2, StartStep
  <2>3. CASE Exec
    BY <2>3, ExecStep
  <2>4. CASE ValidateZip \/ Notify \/ MoveFails \/ CopyFails \/ ScpFails
    BY <2>4, PlainEnds
  <2>5. CASE Rename
    BY <2>5, RenameStep
  <2>6. CASE OpenCopy
    BY <2>6, OpenCopyStep
  <2>7. CASE Copy
    BY <2>7, CopyStep
  <2>8. CASE AskPool
    BY <2>8, AskPoolStep
  <2>9. CASE Connecting
    BY <2>9, ConnectingStep
  <2>10. CASE PoolFails
    BY <2>10, PoolFailsStep
  <2>11. CASE OpenSession
    BY <2>11, OpenSessionStep
  <2>12. CASE RemoveSource
    BY <2>12, RemoveSourceStep
  <2>13. CASE RemoveFails
    BY <2>13, RemoveFailsStep
  <2>14. CASE CloseSession
    BY <2>14, CloseSessionStep
  <2> QED
    BY <1>7, <2>1, <2>2, <2>3, <2>4, <2>5, <2>6, <2>7, <2>8, <2>9, <2>10, <2>11, <2>12,
       <2>13, <2>14 DEF ProcessStep
<1>8. CASE Transfer
  BY <1>8, CreateStep, UploadStep, FlushStep, UploadFailsStep DEF Transfer
<1>9. CASE UNCHANGED vars
  <2>1. UNCHANGED <<cfg, setup, file, copies, step, ran, session, ctxDone, poolVars>>
    BY <1>9 DEF vars, poolVars
  <2>2. P!TypeOK' /\ UNCHANGED <<call, conns, agentConns>>
    BY <2>1, Typed, PoolKept DEF poolVars
  <2>3. Data' /\ (Present => Present')
    BY <2>1, <2>2, Typed DEF Data, Present
  <2> QED
    BY <2>1, <2>2, <2>3, Outside
<1> QED
  BY <1>1, <1>2, <1>3, <1>4, <1>5, <1>6, <1>7, <1>8, <1>9 DEF Next

\* Whatever the files, configurations and failures, IInv holds.
THEOREM Invariance == Spec => []IInv
BY Start, Steps, PTL DEF Spec

\* Every variable keeps its type, the pool's too.
THEOREM TypeCorrect == Spec => []TypeOK
<1>1. IInv => TypeOK
  BY DEF IInv
<1> QED
  BY <1>1, Invariance, PTL

\* What config.Load accepts NewEngine compiles, and no upload asks the pool for
\* a host that the configuration does not have.
THEOREM AcceptedWorks == Spec => []AcceptedConfigWorks
<1>1. IInv => AcceptedConfigWorks
  <2> SUFFICES ASSUME IInv, call.pc # "out" PROVE call.host \in cfg.hosts
    BY DEF IInv, Accepted, AcceptedConfigWorks
  <2>1. step.pc = "connect" /\ call.host = Action.host
    BY DEF IInv, Calling, HostKnown, At
  <2>2. step.pc \notin Calm /\ Validate(cfg)
    BY <2>1 DEF IInv, Accepted, At, Calm
  <2>3. Doing("scp") /\ step.rule \in DOMAIN rules /\ step.idx \in DOMAIN TheRule[step.list]
    BY <2>1, <2>2 DEF IInv, Pointed
  <2>4. step.list \in Lists /\ Action \in ActionConfig
    BY <2>2, PointedAt DEF IInv
  <2>5. validateAction(cfg, Action)
    BY <2>2, <2>3, <2>4 DEF Validate, validateRule, rules, TheRule, Action
  <2>6. FromConfig(Action) \in Action.types
    <3>1. Action.types \subseteq ActionTypes /\ Action.types # {}
      BY <2>4, <2>5 DEF ActionConfig, validateAction
    <3> QED
      BY <3>1, MadeOfItsTypes
  <2> QED
    BY <2>1, <2>3, <2>5, <2>6 DEF Doing, validateAction
<1> QED
  BY <1>1, Invariance, PTL

\* After Close no connection to a host or to the agent is open, and Process,
\* which finds its context done, opens none.
THEOREM ClosedForGood == Spec => []NothingLeftOpen
<1>1. IInv => NothingLeftOpen
  BY DEF IInv, ClosedFinally, NothingLeftOpen
<1> QED
  BY <1>1, Invariance, PTL

\* Only a rename and the removal at the end of a copy or an upload take the
\* file away, both with all of it, as it was read, at the destination.
THEOREM CopiedFirst == Spec => NothingDeletedUncopied
<1> DEFINE Safe == Present /\ file'.size = 0 /\ ~Doing("exec") =>
             \E p \in Places : copies'[p] = file.size \/ (step.read # 0 /\ copies'[p] = step.read)
<1>1. IInv /\ [Next]_vars => [Safe]_vars
  <2> SUFFICES ASSUME IInv, Next, Present, file'.size = 0, ~Doing("exec")
               PROVE  \E p \in Places : copies'[p] = file.size
                                        \/ (step.read # 0 /\ copies'[p] = step.read)
    OBVIOUS
  <2>1. file' # file
    BY Typed DEF Present
  <2>2. ~Grow
    <3> SUFFICES ASSUME Grow PROVE FALSE
      OBVIOUS
    <3>1. PICK z \in 1..MaxSize : file' = [file EXCEPT !.size = z]
      BY DEF Grow
    <3>2. file'.size = z /\ z > 0
      BY <3>1, Typed, Sizes DEF FileState
    <3> QED
      BY <3>2
  <2>3. Rename \/ RemoveSource
    BY <2>1, <2>2 DEF Next, Load, Cancel, ClosePool, ConnectionDies, Offer, ProcessStep, Transfer,
       CancelUpload, Process, StatFails, PassOver, NothingToDo, StartActions, Mid, Exec, ValidateZip, Notify,
       MoveFails, OpenCopy, Copy, CopyFails, ScpFails, AskPool, Connecting, PoolFails, OpenSession,
       RemoveFails, CloseSession, Create, Upload, Flush, UploadFails, UploadMid
  <2>4. CASE Rename
    <3>1. step.pc \notin Calm /\ Put(file.size)
      BY <2>4 DEF Rename, At, Calm
    <3>2. Target \in Places
      BY <3>1, PointedAt DEF IInv
    <3>3. copies'[Target] = file.size
      BY <3>1, <3>2, Typed, CopyPut, FileSize
    <3> QED
      BY <3>2, <3>3
  <2>5. CASE RemoveSource
    <3>1. step.pc = "remove" /\ copies' = copies
      BY <2>5 DEF RemoveSource, At
    <3>2. Target \in Places
      BY <3>1, PointedAt DEF IInv, Calm
    <3>3. copies[Target] = step.read /\ step.read # 0
      BY <3>1 DEF IInv, Copied, At
    <3> QED
      BY <3>1, <3>2, <3>3
  <2> QED
    BY <2>3, <2>4, <2>5
<1>2. Spec => [][Safe]_vars
  BY <1>1, Invariance, PTL DEF Spec
<1> QED
  BY <1>2 DEF NothingDeletedUncopied, Safe
LEMMA Appended ==
  ASSUME ran \in RanState, NEW ok \in BOOLEAN, Finish(ok) PROVE Last(ran').ok = ok
BY DEF RanState, Finish, Last

\* A move or an upload whose result is nil has left the whole file, as large as
\* it was when it was opened.
THEOREM Delivered == Spec => SuccessMeansDelivered
<1> DEFINE Worked == Len(ran') > Len(ran) /\ Last(ran').ok /\ FromConfig(Action) \in {"move", "scp"}
           Whole == copies'[Target] # Partial /\ copies'[Target] >= 1 /\ copies'[Target] >= step.read
<1>1. IInv /\ [Next]_vars => [Worked => Whole]_vars
  <2> SUFFICES ASSUME IInv, Next, Worked PROVE Whole
    OBVIOUS
  <2>1. ran' # ran /\ (Doing("move") \/ Doing("scp"))
    BY DEF Doing
  <2>2. ~Offer
    BY Typed DEF Offer, RanState
  <2>3. ~Exec /\ ~ValidateZip /\ ~Notify
    BY DEF Doing, Exec, ValidateZip, Notify
  <2>4. ~Finish(FALSE)
    BY Typed, Appended
  <2>5. Rename \/ RemoveSource \/ CloseSession
    BY <2>1, <2>2, <2>3, <2>4 DEF Next, Load, Cancel, ClosePool, Grow, ConnectionDies, ProcessStep,
       Transfer, CancelUpload, Process, StatFails, PassOver, NothingToDo, StartActions, Mid, MoveFails, OpenCopy,
       Copy, CopyFails, ReturnsCopyError, ScpFails, AskPool, Connecting, PoolFails, OpenSession,
       RemoveFails, Create, Upload, Flush, UploadFails, UploadMid
  <2>6. CASE Rename
    <3>1. step.pc = "act" /\ Put(file.size) /\ Present
      BY <2>6 DEF Rename, At
    <3>2. Target \in Places
      BY <3>1, PointedAt DEF IInv, Calm
    <3>3. copies'[Target] = file.size /\ file.size \in 0..MaxSize /\ file.size >= 1
      BY <3>1, <3>2, Typed, CopyPut, FileSize
    <3>4. step.read = 0
      BY <3>1 DEF IInv, Starting
    <3> QED
      BY <3>3, <3>4, Sizes DEF Partial
  <2>7. CASE RemoveSource
    <3>1. step.pc = "remove" /\ copies' = copies
      BY <2>7 DEF RemoveSource, At
    <3>2. copies[Target] = step.read /\ step.read >= 1 /\ step.read \in 0..MaxSize
      BY <3>1, Typed, StepFields DEF IInv, Copied, At
    <3> QED
      BY <3>1, <3>2, Sizes DEF Partial
  <2>8. CASE CloseSession
    <3>1. PICK closed \in BOOLEAN : Finish(step.ok /\ closed)
      BY <2>8 DEF CloseSession
    <3>2. step.ok
      <4>1. (step.ok /\ closed) \in BOOLEAN
        OBVIOUS
      <4> QED
        BY <3>1, <4>1, Typed, Appended
    <3>3. step.pc = "leave" /\ copies' = copies
      BY <2>8 DEF CloseSession, At
    <3>4. copies[Target] = step.read /\ step.read >= 1 /\ step.read \in 0..MaxSize
      BY <3>2, <3>3, Typed, StepFields DEF IInv, Copied, At
    <3> QED
      BY <3>3, <3>4, Sizes DEF Partial
  <2> QED
    BY <2>5, <2>6, <2>7, <2>8
<1>2. Spec => [][Worked => Whole]_vars
  BY <1>1, Invariance, PTL DEF Spec
<1> QED
  BY <1>2 DEF SuccessMeansDelivered, Worked, Whole
=============================================================================
