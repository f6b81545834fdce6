--------------------------- MODULE RuleOrderProofs ---------------------------
(***************************************************************************)
(* Proofs about RuleEngine, continued: which rule Process executes, and    *)
(* what of it.                                                             *)
(***************************************************************************)
EXTENDS RuleEngineProofs, FiniteSetTheorems

-----------------------------------------------------------------------------
(* Steps of the actions.                                                   *)

\* Before the first action Process only looks at the file and the rules.
LEMMA OnlyCalm ==
  (ProcessStep \/ Transfer) /\ step.pc \in Calm => Process \/ StatFails \/ PassOver \/ NothingToDo \/ StartActions
BY DEF ProcessStep, Transfer, Exec, ValidateZip, Notify, MoveFails, Rename, OpenCopy, Copy, CopyFails,
   ScpFails, AskPool, Connecting, PoolFails, OpenSession, RemoveSource, RemoveFails, CloseSession,
   Create, Upload, Flush, UploadFails, At, Calm

\* What the actions do to ran and to what Process points at.
LEMMA FinishOrStay ==
  ASSUME IInv, ProcessStep \/ Transfer, step.pc \notin Calm
  PROVE  /\ cfg' = cfg /\ setup' = setup
         /\ \/ \E ok \in BOOLEAN : Finish(ok)
            \/ /\ ran' = ran /\ step'.pc \notin Calm
               /\ step'.rule = step.rule /\ step'.list = step.list /\ step'.idx = step.idx
<1> DEFINE Ended == \E ok \in BOOLEAN : Finish(ok)
           Still == step'.pc \notin Calm /\ step'.rule = step.rule /\ step'.list = step.list /\ step'.idx = step.idx
<1>1. cfg' = cfg /\ setup' = setup
  BY DEF ProcessStep, Transfer, Process, StatFails, PassOver, NothingToDo, StartActions, Mid, Exec, ValidateZip,
     Notify, MoveFails, Rename, OpenCopy, Copy, CopyFails, ScpFails, AskPool, Connecting, PoolFails,
     OpenSession, RemoveSource, RemoveFails, CloseSession, Create, Upload, Flush, UploadFails, UploadMid
<1>2. ASSUME NEW p \in Pcs \ Calm, Goto(p) PROVE Still
  BY <1>2, Typed, WentTo
<1>3. ASSUME NEW ok \in BOOLEAN, Leave(ok) PROVE Still
  BY <1>3, Typed, Left DEF Calm
<1>4. CASE Connecting
  BY <1>4 DEF Connecting, Calm
<1>5. CASE Create \/ Upload \/ Copy
  <2>1. Still
    BY <1>5, Typed DEF Create, Upload, Copy, StepState, Calm
  <2> QED
    BY <1>5, <2>1 DEF Create, Upload, Copy, UploadMid
<1>6. CASE Flush \/ UploadFails
  <2>1. Still
    BY <1>2, <1>3, <1>6 DEF Flush, UploadFails, AfterUploadError, Pcs, Calm
  <2> QED
    BY <1>1, <1>6, <2>1 DEF Flush, UploadFails, UploadMid
<1>7. CASE OpenCopy \/ AskPool \/ OpenSession
  <2>1. Still
    BY <1>2, <1>7 DEF OpenCopy, AskPool, OpenSession, Pcs, Calm
  <2> QED
    BY <1>1, <1>7, <2>1 DEF OpenCopy, AskPool, OpenSession
<1>8. CASE RemoveSource \/ RemoveFails
  <2>1. Ended \/ (Still /\ ran' = ran)
    BY <1>3, <1>8 DEF RemoveSource, RemoveFails
  <2> QED
    BY <1>1, <2>1
<1>9. CASE ValidateZip \/ Notify
  <2>1. Resolves \in BOOLEAN
    BY DEF Resolves
  <2>3. Ended
    BY <1>9, <2>1 DEF ValidateZip, Notify
  <2> QED
    BY <1>1, <2>3
<1>10. CASE CloseSession
  <2>1. PICK closed \in BOOLEAN : Finish(step.ok /\ closed)
    BY <1>10 DEF CloseSession
  <2>2. (step.ok /\ closed) \in BOOLEAN
    OBVIOUS
  <2> QED
    BY <1>1, <2>1, <2>2
<1>11. CASE Exec \/ MoveFails \/ Rename \/ CopyFails \/ ScpFails \/ PoolFails
  <2>1. Ended
    BY <1>11 DEF Exec, MoveFails, Rename, CopyFails, ReturnsCopyError, ScpFails, PoolFails
  <2> QED
    BY <1>1, <2>1
<1>12. ~Process /\ ~StatFails /\ ~PassOver /\ ~NothingToDo /\ ~StartActions
  BY DEF Process, StatFails, PassOver, NothingToDo, StartActions, At, Calm
<1> QED
  BY <1>4, <1>5, <1>6, <1>7, <1>8, <1>9, <1>10, <1>11, <1>12 DEF ProcessStep, Transfer

-----------------------------------------------------------------------------
(* The first rule that matches.                                            *)

\* match.go falls back to min_age_seconds again, to no effect.
LEMMA MatchesMeets ==
  ASSUME NEW m \in MatchRule, validateMatchRule(m), NEW f, f.age \in Int, f.size \in Int
  PROVE  Matches(f, m) <=> Meets(f, m)
<1>1. /\ m.min_age.given \in BOOLEAN /\ m.min_age.ok \in BOOLEAN /\ m.min_age.value \in Int
      /\ m.min_age.given => m.min_age.ok
      /\ m.min_age_seconds \in Int /\ m.min_size \in Int /\ m.max_size \in Int
  BY DEF MatchRule, Age, validateMatchRule
<1> DEFINE minAge == compileMinAge(m)
           age == IF minAge = 0 /\ m.min_age_seconds > 0 THEN m.min_age_seconds ELSE minAge
           bound == IF m.min_age.given /\ m.min_age.value # 0 THEN m.min_age.value ELSE m.min_age_seconds
<1>2. (age > 0 => f.age >= age) <=> (bound <= 0 \/ bound <= f.age)
  <2>1. CASE m.min_age.given
    <3>1. minAge = m.min_age.value
      BY <1>1, <2>1 DEF compileMinAge
    <3> QED
      BY <1>1, <2>1, <3>1
  <2>2. CASE ~m.min_age.given
    <3>1. minAge = IF m.min_age_seconds > 0 THEN m.min_age_seconds ELSE 0
      BY <1>1, <2>2 DEF compileMinAge
    <3> QED
      BY <1>1, <2>2, <3>1
  <2> QED
    BY <2>1, <2>2
<1>3. /\ m.min_size <= 0 \/ m.min_size <= f.size <=> (m.min_size > 0 => f.size >= m.min_size)
      /\ m.max_size <= 0 \/ f.size <= m.max_size <=> (m.max_size > 0 => f.size <= m.max_size)
  BY <1>1
<1>4. m.file_type \in {"", ClassifyExt(f.ext)} <=> (m.file_type # "" => ClassifyExt(f.ext) = m.file_type)
  OBVIOUS
<1>5. Matches(f, m) <=> /\ f.name \in m.filename_regex.names /\ f.name \in m.filename_glob.names
                        /\ m.file_type # "" => ClassifyExt(f.ext) = m.file_type
                        /\ age > 0 => f.age >= age
                        /\ m.min_size > 0 => f.size >= m.min_size
                        /\ m.max_size > 0 => f.size <= m.max_size
  BY Zenon DEF Matches
<1>6. Meets(f, m) <=> /\ f.name \in m.filename_regex.names \cap m.filename_glob.names
                      /\ m.file_type \in {"", ClassifyExt(f.ext)}
                      /\ bound <= 0 \/ bound <= f.age
                      /\ (m.min_size <= 0 \/ m.min_size <= f.size) /\ (m.max_size <= 0 \/ f.size <= m.max_size)
  BY Zenon DEF Meets
<1> HIDE DEF age, bound
<1> QED
  BY <1>2, <1>3, <1>4, <1>5, <1>6

LEMMA MinIs ==
  ASSUME NEW I \in SUBSET Nat, NEW n \in I, \A y \in I : n <= y PROVE Min(I) = n
<1> DEFINE m == CHOOSE x \in I : \A y \in I : x <= y
<1>1. m \in I /\ \A y \in I : m <= y
  OBVIOUS
<1> HIDE DEF m
<1>2. m = n
  BY <1>1
<1> QED
  BY <1>2 DEF Min, m

\* None of the rules before the one Process looks at is to be executed.
Passed ==
  /\ step.pc = "offered" => step.rule = 1
  /\ step.pc = "rules" =>
       \A i \in 1..Len(rules) : i < step.rule =>
         ~(HasActions(rules[i]) /\ Meets(Info, rules[i].match))

LEMMA MeetsOfRule ==
  ASSUME IInv, step.pc = "rules", NEW i \in DOMAIN rules
  PROVE  Matches(Info, rules[i].match) <=> Meets(Info, rules[i].match)
<1>1. Validate(cfg)
  BY DEF IInv, Accepted, At
<1>2. rules \in Seq(Rule)
  BY Typed DEF Configuration, rules
<1>3. rules[i] \in Rule
  BY <1>2
<1>4. rules[i].match \in MatchRule
  BY <1>3 DEF Rule
<1>5. validateMatchRule(rules[i].match)
  BY <1>1 DEF Validate, validateRule, rules
<1>6. Info.age \in Int /\ Info.size \in Int
  BY Typed, StepFields, Sizes DEF FileState, Info
<1> QED
  BY <1>4, <1>5, <1>6, MatchesMeets

LEMMA PassedKept ==
  ASSUME IInv, Passed, step' = step, cfg' = cfg, Info' = Info PROVE Passed'
BY DEF Passed, rules, HasActions, Meets

\* From an action Process does not go back to the rules.
LEMMA NoWayBack ==
  ASSUME IInv, ProcessStep \/ Transfer, step.pc \notin Calm
  PROVE  step'.pc \notin {"offered", "rules"}
<1>1. ASSUME NEW ok \in BOOLEAN, Finish(ok) PROVE step'.pc \notin {"offered", "rules"}
  BY <1>1, FinishOrStay, FinishResult DEF IInv
<1> QED
  BY <1>1, FinishOrStay DEF Calm

LEMMA PassedStep == IInv /\ Passed /\ [Next]_vars => Passed'
<1> SUFFICES ASSUME IInv, Passed, [Next]_vars PROVE Passed'
  OBVIOUS
<1>1. CASE UNCHANGED vars \/ Cancel \/ CancelUpload \/ \E h \in HostNames : ConnectionDies(h)
  BY <1>1, PassedKept DEF vars, Cancel, ConnectionDies, CancelUpload, Info
<1>2. CASE Load \/ ClosePool
  <2>1. step.pc = "idle" /\ step' = step
    BY <1>2 DEF Load, ClosePool, IInv, Accepted, Alive, At
  <2> QED
    BY <2>1 DEF Passed
<1>3. CASE Grow
  <2>1. PICK z \in 1..MaxSize : file' = [file EXCEPT !.size = z]
    BY <1>3 DEF Grow
  <2>2. Info' = Info /\ step' = step /\ cfg' = cfg
    BY <1>3, <2>1, Typed DEF Grow, Info, FileState
  <2> QED
    BY <2>2, PassedKept
<1>4. CASE Offer
  <2>1. step' = [Idle EXCEPT !.pc = "offered"]
    BY <1>4 DEF Offer
  <2>2. step'.pc = "offered" /\ step'.rule = 1
    BY <2>1 DEF Idle
  <2> QED
    BY <2>2 DEF Passed
<1>5. CASE Process
  <2>1. PICK dry \in BOOLEAN : step' = [step EXCEPT !.pc = "rules", !.dry = dry, !.size = file.size]
    BY <1>5 DEF Process
  <2>2. step'.pc = "rules" /\ step'.rule = 1
    BY <1>5 DEF Process, At, Passed
  <2>3. rules' \in Seq(Rule)
    BY <1>5, Typed DEF Process, Mid, Configuration, rules
  <2> QED
    BY <2>2, <2>3 DEF Passed
<1>6. CASE PassOver
  <2>1. /\ step.pc = "rules" /\ step.rule <= Len(rules) /\ step' = [step EXCEPT !.rule = @ + 1]
        /\ ~Matches(Info, TheRule.match) \/ ~HasActions(TheRule)
        /\ cfg' = cfg /\ file' = file
    BY <1>6 DEF PassOver, Mid, At
  <2>2. step'.pc = "rules" /\ step'.rule = step.rule + 1 /\ step'.size = step.size /\ step.rule \in Nat \ {0}
    BY <2>1, Typed DEF StepState
  <2>3. rules' = rules /\ Info' = Info
    BY <2>1, <2>2 DEF rules, Info
  <2>4. rules \in Seq(Rule)
    BY Typed DEF Configuration, rules
  <2>5. step.rule \in DOMAIN rules
    BY <2>1, <2>2, <2>4
  <2>6. ~(HasActions(TheRule) /\ Meets(Info, TheRule.match))
    BY <2>1, <2>5, MeetsOfRule DEF TheRule
  <2>7. \A i \in 1..Len(rules) : i < step.rule + 1 => ~(HasActions(rules[i]) /\ Meets(Info, rules[i].match))
    <3> SUFFICES ASSUME NEW i \in 1..Len(rules), i < step.rule + 1
                 PROVE  ~(HasActions(rules[i]) /\ Meets(Info, rules[i].match))
      OBVIOUS
    <3>1. i < step.rule \/ i = step.rule
      BY <2>2
    <3>2. CASE i < step.rule
      BY <2>1, <3>2 DEF Passed
    <3>3. CASE i = step.rule
      BY <2>6, <3>3 DEF TheRule
    <3> QED
      BY <3>1, <3>2, <3>3
  <2> QED
    BY <2>2, <2>3, <2>7 DEF Passed, HasActions, Meets
<1>7. CASE StatFails \/ NothingToDo
  BY <1>7 DEF StatFails, NothingToDo, Idle, Passed
<1>8. CASE StartActions
  BY <1>8, Typed DEF StartActions, Goto, StepState, Passed
<1>9. CASE (ProcessStep \/ Transfer) /\ step.pc \notin Calm
  BY <1>9, NoWayBack DEF Passed
<1>10. (ProcessStep \/ Transfer) /\ step.pc \in Calm
         => Process \/ StatFails \/ PassOver \/ NothingToDo \/ StartActions
  BY OnlyCalm
<1> QED
  BY <1>1, <1>2, <1>3, <1>4, <1>5, <1>6, <1>7, <1>8, <1>9, <1>10 DEF Next

\* The actions that Process starts are those of the first rule that has any and
\* that the file met, as it was when Process looked at it.
THEOREM FirstMatch == Spec => FirstMatchWins
<1> DEFINE Test(r) == HasActions(r) /\ Meets(Info, r.match)
           First == At("rules") /\ step'.pc = "act" => step.rule = SelectInSeq(rules, Test)
<1>1. IInv /\ Passed /\ [Next]_vars => [First]_vars
  <2> SUFFICES ASSUME IInv, Passed, Next, step.pc = "rules", step'.pc = "act"
               PROVE  step.rule = SelectInSeq(rules, Test)
    BY DEF At
  <2>1. StartActions
    BY Typed DEF Next, Load, Cancel, ClosePool, Grow, ConnectionDies, Offer, ProcessStep, Transfer,
       CancelUpload, Process, StatFails, PassOver, NothingToDo, Idle, Mid, Exec, ValidateZip, Notify,
       MoveFails, Rename, OpenCopy, Copy, CopyFails, ScpFails, AskPool, Connecting, PoolFails, OpenSession,
       RemoveSource, RemoveFails, CloseSession, Create, Upload, Flush, UploadFails, At, StepState
  <2>2. rules \in Seq(Rule) /\ step.rule \in 1..Len(rules)
    BY <2>1, Typed, StepFields DEF StartActions, Configuration, rules
  <2>3. Test(rules[step.rule])
    BY <2>1, <2>2, MeetsOfRule DEF StartActions, TheRule
  <2> DEFINE I == {i \in 1..Len(rules) : Test(rules[i])}
  <2>4. step.rule \in I
    BY <2>2, <2>3
  <2>5. \A i \in I : step.rule <= i
    BY <2>2 DEF Passed
  <2>6. I \in SUBSET Nat
    BY <2>2
  <2> HIDE DEF I
  <2>7. Min(I) = step.rule /\ I # {}
    BY <2>4, <2>5, <2>6, MinIs
  <2> QED
    BY <2>7 DEF SelectInSeq, I
<1>2. Init => Passed
  BY DEF Init, Passed, Idle
<1>3. Spec => [][First]_vars
  BY <1>1, <1>2, PassedStep, Invariance, PTL DEF Spec
<1> QED
  BY <1>3 DEF FirstMatchWins, First, Test
-----------------------------------------------------------------------------
(* The actions and the hooks of that rule.                                 *)

\* ran: n primary actions, all but the last of which worked, then hooks.
Hooks(n) == IF ran[n].ok THEN "on_success" ELSE "on_fail"
Ran(n) ==
  /\ \A k \in 1..n : ran[k].list = "actions" /\ ran[k].idx = k /\ (k < n => ran[k].ok)
  /\ \A k \in (n + 1)..Len(ran) : ran[k].list = Hooks(n) /\ ran[k].idx = k - n

\* After n actions it is the turn of the hooks.
Turn(n) == n >= 1 /\ (n = Len(TheRule.actions) \/ ~ran[n].ok)

InActions(n) == step.list = "actions" /\ n = Len(ran) /\ step.idx = n + 1 /\ (n >= 1 => ran[n].ok)
InHooks(n) == Turn(n) /\ step.list = Hooks(n) /\ step.idx = Len(ran) - n + 1
Through(n) == Turn(n) /\ Len(ran) = n + Len(TheRule[Hooks(n)])

Traced ==
  /\ step.pc \in {"offered", "rules"} \/ setup \notin Alive => ran = <<>>
  /\ step.pc \notin Calm => \E n \in 0..Len(ran) : Ran(n) /\ (InActions(n) \/ InHooks(n))
  /\ step.pc = "idle" /\ ran # <<>> => \E n \in 0..Len(ran) : Ran(n) /\ Through(n)

LEMMA TracedKept ==
  ASSUME IInv, Traced, cfg' = cfg, setup' = setup \/ step.pc = "idle", setup \in Alive \/ ran = <<>>,
         ran' = ran,
         step'.rule = step.rule, step'.list = step.list, step'.idx = step.idx,
         step'.pc = step.pc \/ (step.pc \notin Calm /\ step'.pc \notin Calm),
         setup' \in Alive \/ ran = <<>>
  PROVE  Traced'
<1>1. TheRule' = TheRule
  BY SameAction
<1>2. \A n : Hooks(n)' = Hooks(n)
  BY DEF Hooks
<1>3. \A n : Ran(n) => Ran(n)'
  BY <1>2 DEF Ran
<1>4. \A n : Turn(n) => Turn(n)'
  BY <1>1 DEF Turn
<1>5. \A n : /\ InActions(n) => InActions(n)'
             /\ InHooks(n) => InHooks(n)'
             /\ Through(n) => Through(n)'
  BY <1>1, <1>2, <1>4 DEF InActions, InHooks, Through
<1>6. /\ step'.pc \in {"offered", "rules"} => step.pc \in {"offered", "rules"}
      /\ step'.pc \notin Calm => step.pc \notin Calm
      /\ step'.pc = "idle" => step.pc = "idle"
  BY DEF Calm
<1>7. step'.pc \notin Calm => \E n \in 0..Len(ran') : Ran(n)' /\ (InActions(n)' \/ InHooks(n)')
  BY <1>3, <1>5, <1>6 DEF Traced
<1>8. step'.pc = "idle" /\ ran' # <<>> => \E n \in 0..Len(ran') : Ran(n)' /\ Through(n)'
  BY <1>3, <1>5, <1>6 DEF Traced
<1>9. step'.pc \in {"offered", "rules"} \/ setup' \notin Alive => ran' = <<>>
  BY <1>6 DEF Traced
<1> QED
  BY <1>7, <1>8, <1>9 DEF Traced

\* Where an action that ends leads to.
LEMMA Leads ==
  ASSUME IInv, step.pc \notin Calm, cfg' = cfg, NEW ok \in BOOLEAN, Finish(ok)
  PROVE  LET list == NextList(ok)
             idx == IF list = step.list THEN step.idx + 1 ELSE 1
         IN /\ step'.rule = step.rule /\ TheRule' = TheRule
            /\ idx <= Len(TheRule[list]) => step'.pc = "act" /\ step'.list = list /\ step'.idx = idx
            /\ ~(idx <= Len(TheRule[list])) => step'.pc = "idle"
<1> DEFINE list == NextList(ok)
           idx == IF list = step.list THEN step.idx + 1 ELSE 1
<1> HIDE DEF list, idx
<1>1. step' = IF idx <= Len(TheRule[list])
              THEN [step EXCEPT !.pc = "act", !.list = list, !.idx = idx, !.read = 0, !.ok = FALSE]
              ELSE [Idle EXCEPT !.rule = step.rule]
  BY DEF Finish, list, idx
<1>2. CASE idx <= Len(TheRule[list])
  <2>1. step'.pc = "act" /\ step'.list = list /\ step'.idx = idx /\ step'.rule = step.rule
    BY <1>1, <1>2, Typed DEF StepState
  <2>2. TheRule' = TheRule
    BY <2>1 DEF TheRule, rules
  <2> QED
    BY <1>2, <2>1, <2>2 DEF list, idx
<1>3. CASE ~(idx <= Len(TheRule[list]))
  <2>1. step'.pc = "idle" /\ step'.rule = step.rule
    BY <1>1, <1>3 DEF Idle
  <2>2. TheRule' = TheRule
    BY <2>1 DEF TheRule, rules
  <2> QED
    BY <1>3, <2>1, <2>2 DEF list, idx
<1> QED
  BY <1>2, <1>3

LEMMA OneMore ==
  ASSUME ran \in RanState, step \in StepState, NEW ok \in BOOLEAN, Finish(ok)
  PROVE  /\ Len(ran) \in Nat /\ Len(ran') = Len(ran) + 1 /\ ran' # <<>>
         /\ \A k \in 1..Len(ran) : ran'[k] = ran[k]
         /\ ran'[Len(ran) + 1].list = step.list /\ ran'[Len(ran) + 1].idx = step.idx
         /\ ran'[Len(ran) + 1].ok = ok
<1> DEFINE new == [list |-> step.list, idx |-> step.idx, ok |-> ok]
<1>1. ran' = Append(ran, new)
  BY DEF Finish
<1>2. new \in [list : Lists, idx : Nat \ {0}, ok : BOOLEAN]
  BY DEF StepState
<1>3. new.list = step.list /\ new.idx = step.idx /\ new.ok = ok
  OBVIOUS
<1> HIDE DEF new
<1>4. /\ Len(ran) \in Nat /\ Len(ran') = Len(ran) + 1
      /\ \A k \in 1..Len(ran) : ran'[k] = ran[k]
      /\ ran'[Len(ran) + 1] = new
  BY <1>1, <1>2 DEF RanState
<1>5. ran' # <<>>
  BY <1>4
<1> QED
  BY <1>3, <1>4, <1>5

\* An action that ends adds itself, and what comes next is decided by it.
LEMMA TracedFinish ==
  ASSUME IInv, Traced, step.pc \notin Calm, cfg' = cfg, setup' = setup, NEW ok \in BOOLEAN, Finish(ok)
  PROVE  Traced'
<1> DEFINE list == NextList(ok)
           idx == IF list = step.list THEN step.idx + 1 ELSE 1
           L == Len(ran)
<1>1. PICK n \in 0..L : Ran(n) /\ (InActions(n) \/ InHooks(n))
  BY DEF Traced
<1>2. /\ L \in Nat /\ Len(ran') = L + 1 /\ ran' # <<>>
      /\ \A k \in 1..L : ran'[k] = ran[k]
      /\ ran'[L + 1].list = step.list /\ ran'[L + 1].idx = step.idx /\ ran'[L + 1].ok = ok
  BY Typed, OneMore
<1>3. /\ step'.rule = step.rule /\ TheRule' = TheRule
      /\ idx <= Len(TheRule[list]) => step'.pc = "act" /\ step'.list = list /\ step'.idx = idx
      /\ ~(idx <= Len(TheRule[list])) => step'.pc = "idle"
  BY Leads
<1>4. setup' \in Alive
  BY DEF IInv, Accepted, At, Calm
<1>5. step.idx \in DOMAIN TheRule[step.list] /\ step.list \in Lists
  BY PointedAt DEF IInv, Pointed
<1>6. \A l \in Lists : TheRule[l] \in Seq(ActionConfig)
  BY PointedAt DEF IInv
<1>7. step.idx \in 1..Len(TheRule[step.list]) /\ \A l \in Lists : Len(TheRule[l]) \in Nat
  BY <1>5, <1>6
<1> HIDE DEF list, idx, L
<1>8. step'.pc \in {"act", "idle"}
  BY <1>3
<1>9. SUFFICES \E m \in 0..Len(ran') : /\ Ran(m)'
                                       /\ step'.pc = "act" => InActions(m)' \/ InHooks(m)'
                                       /\ step'.pc = "idle" => Through(m)'
  BY <1>4, <1>8 DEF Traced, Calm
<1>10. CASE InActions(n)
  <2>0. PICK m \in Nat : m = L + 1
    BY <1>2
  <2>1. n = L /\ step.list = "actions" /\ step.idx = m
    BY <1>10, <2>0 DEF InActions, L
  <2>2. \A k \in 1..L : ran[k].list = "actions" /\ ran[k].idx = k /\ ran[k].ok
    <3> SUFFICES ASSUME NEW k \in 1..L PROVE ran[k].list = "actions" /\ ran[k].idx = k /\ ran[k].ok
      OBVIOUS
    <3>1. ran[k].list = "actions" /\ ran[k].idx = k /\ (k < n => ran[k].ok)
      BY <1>1, <2>1 DEF Ran
    <3>2. k < n \/ k = n
      BY <1>2, <2>0, <2>1
    <3>3. k = n => ran[k].ok
      BY <1>2, <2>0, <1>10, <2>1 DEF InActions
    <3> QED
      BY <3>1, <3>2, <3>3
  <2>3. Ran(m)'
    <3>1. \A k \in 1..m : ran'[k].list = "actions" /\ ran'[k].idx = k /\ (k < m => ran'[k].ok)
      <4> SUFFICES ASSUME NEW k \in 1..m
                   PROVE  ran'[k].list = "actions" /\ ran'[k].idx = k /\ (k < m => ran'[k].ok)
        OBVIOUS
      <4>1. CASE k \in 1..L
        BY <1>2, <2>0, <2>2, <4>1
      <4>2. CASE k = m
        BY <1>2, <2>0, <2>1, <4>2
      <4> QED
        BY <1>2, <2>0, <4>1, <4>2
    <3>2. (m + 1)..Len(ran') = {}
      BY <1>2, <2>0
    <3> QED
      BY <3>1, <3>2 DEF Ran
  <2>4. ran'[m].ok = ok /\ m >= 1 /\ m \in 0..Len(ran') /\ m <= Len(TheRule.actions)
    BY <1>2, <2>0, <1>7, <2>1
  <2>5. CASE ok /\ m < Len(TheRule.actions)
    <3>1. list = "actions" /\ idx = m + 1
      BY <2>1, <2>5 DEF NextList, list, idx
    <3>2. step'.pc = "act" /\ step'.list = "actions" /\ step'.idx = m + 1
      BY <1>3, <2>5, <3>1
    <3>3. InActions(m)'
      BY <1>2, <2>0, <2>4, <2>5, <3>2 DEF InActions
    <3> QED
      BY <2>0, <2>3, <2>4, <3>2, <3>3
  <2>6. CASE ~(ok /\ m < Len(TheRule.actions))
    <3>1. list = (IF ok THEN "on_success" ELSE "on_fail") /\ idx = 1
      BY <2>1, <2>6 DEF NextList, list, idx
    <3>2. Hooks(m)' = list
      BY <2>4, <3>1 DEF Hooks
    <3>3. m = Len(TheRule.actions) \/ ~ok
      BY <1>2, <2>0, <1>7, <2>4, <2>6 DEF Lists
    <3>4. Turn(m)'
      BY <1>3, <2>4, <3>3 DEF Turn
    <3>5. list \in Lists /\ Len(TheRule[list]) \in Nat
      BY <1>7, <3>1 DEF Lists
    <3>6. CASE 1 <= Len(TheRule[list])
      <4>1. step'.pc = "act" /\ step'.list = list /\ step'.idx = 1
        BY <1>3, <3>1, <3>6
      <4>2. InHooks(m)'
        BY <1>2, <2>0, <3>2, <3>4, <4>1 DEF InHooks
      <4> QED
        BY <2>0, <2>3, <2>4, <4>1, <4>2
    <3>7. CASE ~(1 <= Len(TheRule[list]))
      <4>1. step'.pc = "idle" /\ Len(TheRule[list]) = 0
        BY <1>3, <3>1, <3>5, <3>7
      <4>2. Len(TheRule[Hooks(m)])' = 0
        BY <1>3, <3>2, <4>1
      <4>3. Len(ran') = m + Len(TheRule[Hooks(m)])'
        BY <1>2, <2>0, <4>2
      <4>4. Through(m)'
        BY <3>4, <4>3 DEF Through
      <4> QED
        BY <2>0, <2>3, <2>4, <4>1, <4>4
    <3> QED
      BY <3>6, <3>7
  <2> QED
    BY <2>5, <2>6
<1>11. CASE InHooks(n)
  <2>1. Turn(n) /\ step.list = Hooks(n) /\ step.idx = L - n + 1
    BY <1>11 DEF InHooks, L
  <2>2. n \in 1..L /\ ran'[n] = ran[n] /\ Hooks(n)' = Hooks(n) /\ n \in 0..Len(ran')
    BY <1>2, <2>1 DEF Turn, Hooks
  <2>3. Turn(n)'
    BY <1>3, <2>1, <2>2 DEF Turn
  <2>4. Ran(n)'
    <3>1. \A k \in 1..n : ran'[k].list = "actions" /\ ran'[k].idx = k /\ (k < n => ran'[k].ok)
      <4> SUFFICES ASSUME NEW k \in 1..n
                   PROVE  ran'[k].list = "actions" /\ ran'[k].idx = k /\ (k < n => ran'[k].ok)
        OBVIOUS
      <4>1. ran'[k] = ran[k]
        BY <1>2, <2>2
      <4> QED
        BY <1>1, <4>1 DEF Ran
    <3>2. \A k \in (n + 1)..Len(ran') : ran'[k].list = Hooks(n) /\ ran'[k].idx = k - n
      <4> SUFFICES ASSUME NEW k \in (n + 1)..Len(ran')
                   PROVE  ran'[k].list = Hooks(n) /\ ran'[k].idx = k - n
        OBVIOUS
      <4>1. CASE k = L + 1
        BY <1>2, <2>1, <4>1
      <4>2. CASE k # L + 1
        <5>1. k \in (n + 1)..L /\ k \in 1..L
          BY <1>2, <2>2, <4>2
        <5>2. ran[k].list = Hooks(n) /\ ran[k].idx = k - n
          BY <1>1, <5>1 DEF Ran, L
        <5> QED
          BY <1>2, <5>1, <5>2
      <4> QED
        BY <4>1, <4>2
    <3> QED
      BY <2>2, <3>1, <3>2 DEF Ran
  <2>5. Hooks(n) \in {"on_success", "on_fail"}
    BY DEF Hooks
  <2>6. list = Hooks(n) /\ idx = L - n + 2
    BY <1>2, <2>1, <2>5 DEF NextList, list, idx
  <2>7. CASE idx <= Len(TheRule[list])
    <3>1. step'.pc = "act" /\ step'.list = Hooks(n) /\ step'.idx = Len(ran') - n + 1
      BY <1>2, <1>3, <2>2, <2>6, <2>7
    <3>2. InHooks(n)'
      BY <2>2, <2>3, <3>1 DEF InHooks
    <3> QED
      BY <2>2, <2>4, <3>1, <3>2
  <2>8. CASE ~(idx <= Len(TheRule[list]))
    <3>1. step'.pc = "idle"
      BY <1>3, <2>8
    <3>2. Len(ran') = n + Len(TheRule[Hooks(n)])
      <4>1. Hooks(n) \in Lists
        BY <2>5 DEF Lists
      <4>2. Len(TheRule[Hooks(n)]) \in Nat /\ step.idx <= Len(TheRule[Hooks(n)])
        BY <1>7, <2>1, <4>1
      <4>3. ~(L - n + 2 <= Len(TheRule[Hooks(n)]))
        BY <2>6, <2>8
      <4> QED
        BY <1>2, <2>1, <2>2, <4>2, <4>3
    <3>3. Through(n)'
      BY <1>3, <2>2, <2>3, <3>2 DEF Through
    <3> QED
      BY <2>2, <2>4, <3>1, <3>3
  <2> QED
    BY <2>7, <2>8
<1> QED
  BY <1>1, <1>10, <1>11
LEMMA TracedStep == IInv /\ Traced /\ [Next]_vars => Traced'
<1> SUFFICES ASSUME IInv, Traced, [Next]_vars PROVE Traced'
  OBVIOUS
<1>1. setup \in Alive \/ ran = <<>>
  BY DEF Traced
<1>2. CASE UNCHANGED vars \/ Cancel \/ CancelUpload \/ Grow \/ \E h \in HostNames : ConnectionDies(h)
  <2>1. UNCHANGED <<cfg, setup, step, ran>>
    BY <1>2 DEF vars, Cancel, CancelUpload, Grow, ConnectionDies
  <2> QED
    BY <1>1, <2>1, TracedKept
<1>3. CASE ClosePool
  BY <1>1, <1>3, TracedKept DEF ClosePool, At, Alive
<1>4. CASE Load
  <2>1. step.pc = "idle" /\ step' = step /\ ran' = <<>>
    BY <1>1, <1>4 DEF Load, IInv, Accepted, Alive, At
  <2> QED
    BY <2>1 DEF Traced, Calm
<1>5. CASE Offer
  <2>1. ran' = <<>> /\ step' = [Idle EXCEPT !.pc = "offered"]
    BY <1>5 DEF Offer
  <2>2. step'.pc = "offered"
    BY <2>1 DEF Idle
  <2> QED
    BY <2>1, <2>2 DEF Traced, Calm
<1>6. CASE Process \/ StatFails \/ PassOver \/ NothingToDo
  <2>1. step.pc \in {"offered", "rules"} /\ ran' = ran
    BY <1>6 DEF Process, StatFails, PassOver, NothingToDo, Mid, At
  <2>2. ran' = <<>>
    BY <2>1 DEF Traced
  <2>3. step'.pc \in Calm
    <3>1. CASE Process
      BY <3>1, Typed DEF Process, StepState, Calm
    <3>2. CASE PassOver
      BY <2>1, <3>2, Typed DEF PassOver, StepState, Calm
    <3>3. CASE StatFails \/ NothingToDo
      BY <3>3 DEF StatFails, NothingToDo, Idle, Calm
    <3> QED
      BY <1>6, <3>1, <3>2, <3>3
  <2> QED
    BY <2>2, <2>3 DEF Traced
<1>7. CASE StartActions
  <2>1. step.pc = "rules" /\ Goto("act") /\ ran' = ran /\ setup' = setup
    BY <1>7 DEF StartActions, Mid, At
  <2>2. ran' = <<>> /\ Len(ran') = 0
    BY <2>1 DEF Traced
  <2>3. step'.pc = "act" /\ step'.list = "actions" /\ step'.idx = 1
    BY <2>1, Typed, WentTo DEF IInv, Starting, Pcs
  <2>4. Ran(0)' /\ InActions(0)'
    BY <2>2, <2>3 DEF Ran, InActions
  <2> QED
    BY <2>2, <2>3, <2>4 DEF Traced, Calm
<1>8. CASE (ProcessStep \/ Transfer) /\ step.pc \notin Calm
  <2>1. cfg' = cfg /\ setup' = setup /\ setup \in Alive
    BY <1>8, FinishOrStay DEF IInv, Accepted, At, Calm
  <2>2. CASE \E ok \in BOOLEAN : Finish(ok)
    BY <1>8, <2>1, <2>2, TracedFinish
  <2>3. CASE /\ ran' = ran /\ step'.pc \notin Calm
             /\ step'.rule = step.rule /\ step'.list = step.list /\ step'.idx = step.idx
    BY <1>8, <2>1, <2>3, TracedKept
  <2> QED
    BY <1>8, <2>2, <2>3, FinishOrStay
<1>9. (ProcessStep \/ Transfer) /\ step.pc \in Calm
         => Process \/ StatFails \/ PassOver \/ NothingToDo \/ StartActions
  BY OnlyCalm
<1> QED
  BY <1>2, <1>3, <1>4, <1>5, <1>6, <1>7, <1>8, <1>9 DEF Next

\* When Process is over, the actions of the rule have run in order up to the
\* first failure, and then exactly one list of hooks, whatever failed in it.
THEOREM AsConfigured == Spec => []RunsAsConfigured
<1>1. IInv /\ Traced => RunsAsConfigured
  <2> SUFFICES ASSUME IInv, Traced, step.pc = "idle", ran # <<>> PROVE RunsAsConfigured
    BY DEF RunsAsConfigured, At
  <2>1. PICK n \in 0..Len(ran) : Ran(n) /\ Through(n)
    BY DEF Traced
  <2>2. Len(ran) \in Nat /\ DOMAIN ran = 1..Len(ran) /\ n \in 1..Len(ran)
    BY <2>1, Typed DEF RanState, Through, Turn
  <2> DEFINE Primary == {k \in DOMAIN ran : ran[k].list = "actions"}
             failed(k) == ran[k].list = "actions" /\ ~ran[k].ok
             hooks == IF failed(n) THEN "on_fail" ELSE "on_success"
  <2>3. Primary = 1..n
    BY <2>1, <2>2 DEF Ran, Hooks
  <2>4. Cardinality(Primary) = n
    <3>1. Cardinality(1..n) = n
      BY <2>2, FS_Interval
    <3> QED
      BY <2>3, <3>1
  <2>5. ran[n].list = "actions" /\ (failed(n) <=> ~ran[n].ok)
    BY <2>1, <2>2 DEF Ran
  <2>6. hooks = Hooks(n)
    BY <2>5 DEF Hooks
  <2>7. n = Len(TheRule.actions) \/ failed(n)
    BY <2>1, <2>5 DEF Through, Turn
  <2>8. Len(ran) = n + Len(TheRule[hooks])
    BY <2>1, <2>6 DEF Through
  <2>9. \A k \in DOMAIN ran :
          /\ ran[k].list = IF k <= n THEN "actions" ELSE hooks
          /\ ran[k].idx = IF k <= n THEN k ELSE k - n
          /\ k < n => ran[k].ok
    BY <2>1, <2>2, <2>6 DEF Ran
  <2> HIDE DEF Primary, hooks, failed
  <2> QED
    BY <2>4, <2>7, <2>8, <2>9 DEF RunsAsConfigured, Primary, hooks, failed
<1>2. Init => Traced
  BY DEF Init, Traced, Idle, Calm
<1> QED
  BY <1>1, <1>2, TracedStep, Invariance, PTL DEF Spec

-----------------------------------------------------------------------------
(* RuleEngine implements EngineCall: what Daemon takes a call for is what  *)
(* Process does, for any configuration.                                    *)

Disk == [p \in {"file"} |-> file.size]
CallPath == IF At("idle") THEN "no path" ELSE "file"
CallDry == CallPc \in {"deciding", "acting"} /\ step.dry

\* Nothing removes the file between the offer and os.Stat.
StillThere == At("offered") => Present

LEMMA PhaseNow ==
  ASSUME step \in StepState
  PROVE  /\ step.pc = "idle" => CallPc = "out" /\ CallPath = "no path" /\ CallDry = FALSE
         /\ step.pc # "idle" => CallPath = "file"
         /\ step.pc = "offered" => CallPc = "called" /\ CallDry = FALSE
         /\ step.pc = "rules" => CallPc = "deciding" /\ CallDry = step.dry
         /\ step.pc \notin Calm => CallPc = "acting" /\ CallDry = step.dry
BY StepFields DEF At, CallPc, CallPath, CallDry, Calm

LEMMA PhaseNext ==
  ASSUME step' \in StepState
  PROVE  /\ step'.pc = "idle" => CallPc' = "out" /\ CallPath' = "no path" /\ CallDry' = FALSE
         /\ step'.pc # "idle" => CallPath' = "file"
         /\ step'.pc = "offered" => CallPc' = "called" /\ CallDry' = FALSE
         /\ step'.pc = "rules" => CallPc' = "deciding" /\ CallDry' = step'.dry
         /\ step'.pc \notin Calm => CallPc' = "acting" /\ CallDry' = step'.dry
<1>1. /\ step'.pc \in Pcs /\ step'.dry \in BOOLEAN
  BY StepFields
<1> QED
  BY <1>1 DEF At, CallPc, CallPath, CallDry, Calm

LEMMA Alike ==
  ASSUME step' = step PROVE UNCHANGED <<CallPc, CallPath, CallDry>>
<1>1. \A pc : At(pc)' <=> At(pc)
  BY DEF At
<1>2. CallPc' = CallPc /\ CallPath' = CallPath
  BY <1>1 DEF CallPc, CallPath
<1>3. (CallPc' \in {"deciding", "acting"} /\ step'.dry) = (CallPc \in {"deciding", "acting"} /\ step.dry)
  BY <1>2
<1> QED
  BY <1>2, <1>3 DEF CallDry

LEMMA CallUnchanged ==
  ASSUME file'.size = file.size, step' = step, ctxDone' = ctxDone
  PROVE  UNCHANGED C!callVars
BY Alike DEF C!callVars, CallPath, CallDry

\* In an action only the file may go, and the mode stays.
LEMMA ActionTakes ==
  ASSUME IInv, ProcessStep \/ Transfer, step.pc \notin Calm
  PROVE  /\ file'.size \in {file.size, 0} /\ ctxDone' = ctxDone
         /\ step' \in StepState
         /\ step'.pc = "idle" \/ (step'.pc \notin Calm /\ step'.dry = step.dry)
<1>0. step \in StepState /\ file \in FileState /\ step' \in StepState
  BY Typed, Steps, TypesApartNext, FinishOrStay DEF IInv, Next
<1>1. file'.size \in {file.size, 0}
  <2>1. Gone => file'.size = 0
    BY <1>0 DEF Gone, FileState
  <2>2. [file EXCEPT !.size = 0].size = 0
    BY <1>0 DEF FileState
  <2> QED
    BY <2>1, <2>2 DEF ProcessStep, Transfer, Process, StatFails, PassOver, NothingToDo, StartActions, Mid, Exec, ValidateZip,
     Notify, MoveFails, Rename, OpenCopy, Copy, CopyFails, ScpFails, AskPool, Connecting, PoolFails,
     OpenSession, RemoveSource, RemoveFails, CloseSession, Create, Upload, Flush, UploadFails, UploadMid
<1>2. ctxDone' = ctxDone
  BY DEF ProcessStep, Transfer, Process, StatFails, PassOver, NothingToDo, StartActions, Mid, Exec, ValidateZip,
     Notify, MoveFails, Rename, OpenCopy, Copy, CopyFails, ScpFails, AskPool, Connecting, PoolFails,
     OpenSession, RemoveSource, RemoveFails, CloseSession, Create, Upload, Flush, UploadFails, UploadMid
<1> DEFINE Result == step'.pc = "idle" \/ (step'.pc \notin Calm /\ step'.dry = step.dry)
<1>3. ASSUME NEW ok \in BOOLEAN, Finish(ok) PROVE Result
  <2>1. step'.pc = "idle" \/ step'.pc = "act"
    BY <1>3, FinishOrStay, FinishResult DEF IInv
  <2>2. step'.pc = "act" => step'.dry = step.dry
    BY <1>0, <1>3 DEF Finish, Idle, StepState
  <2> QED
    BY <2>1, <2>2 DEF Calm
<1>4. (\E ok \in BOOLEAN : Finish(ok)) => Result
  BY <1>3
<1>5. ASSUME ~(\E ok \in BOOLEAN : Finish(ok)) PROVE Result
  <2>1. step'.pc \notin Calm
    BY <1>5, FinishOrStay
  <2>2. ASSUME NEW p, Goto(p) PROVE step'.dry = step.dry
    BY <1>0, <2>2 DEF Goto, StepState
  <2>3. ASSUME NEW ok, Leave(ok) PROVE step'.dry = step.dry
    BY <1>0, <2>3 DEF Leave, StepState
  <2>4. CASE Create \/ Upload \/ Copy
    BY <1>0, <2>1, <2>4 DEF Create, Upload, Copy, StepState
  <2>5. CASE Flush \/ UploadFails \/ RemoveSource \/ RemoveFails
    BY <1>5, <2>1, <2>2, <2>3, <2>5 DEF Flush, UploadFails, AfterUploadError, RemoveSource, RemoveFails
  <2>6. CASE OpenCopy \/ AskPool \/ OpenSession
    BY <2>1, <2>2, <2>6 DEF OpenCopy, AskPool, OpenSession
  <2>7. CASE Connecting
    BY <2>1, <2>7 DEF Connecting
  <2>8. ~Exec /\ ~MoveFails /\ ~Rename /\ ~CopyFails /\ ~ScpFails /\ ~PoolFails /\ ~CloseSession
    <3>1. \A closed \in BOOLEAN : (step.ok /\ closed) \in BOOLEAN
      OBVIOUS
    <3> QED
      BY <1>5 DEF Exec, MoveFails, Rename, CopyFails, ReturnsCopyError, ScpFails, PoolFails, CloseSession
  <2>9. ~ValidateZip /\ ~Notify
    <3>1. Resolves \in BOOLEAN
      BY DEF Resolves
    <3> QED
      BY <1>5, <3>1 DEF ValidateZip, Notify
  <2>10. ~Process /\ ~StatFails /\ ~PassOver /\ ~NothingToDo /\ ~StartActions
    BY DEF Process, StatFails, PassOver, NothingToDo, StartActions, At, Calm
  <2> QED
    BY <2>4, <2>5, <2>6, <2>7, <2>8, <2>9, <2>10 DEF ProcessStep, Transfer
<1> HIDE DEF Result
<1>6. Result
  BY <1>4, <1>5
<1> QED
  BY <1>0, <1>1, <1>2, <1>6 DEF Result

LEMMA StillThereStep == IInv /\ StillThere /\ [Next]_vars => StillThere'
<1> SUFFICES ASSUME IInv, StillThere, [Next]_vars, step'.pc = "offered" PROVE file'.size > 0
  BY DEF StillThere, At, Present
<1>0. step \in StepState /\ file \in FileState /\ file.size \in Nat
  BY Typed, Sizes DEF FileState
<1>1. CASE Offer
  BY <1>1 DEF Offer, Present
<1>2. CASE Grow
  <2>1. PICK z \in 1..MaxSize : z > file.size /\ file' = [file EXCEPT !.size = z]
    BY <1>2 DEF Grow
  <2>2. file'.size = z
    BY <1>0, <2>1 DEF FileState
  <2> QED
    BY <1>0, <2>1, <2>2, Sizes
<1>3. CASE UNCHANGED vars \/ Load \/ Cancel \/ ClosePool \/ CancelUpload \/ \E h \in HostNames : ConnectionDies(h)
  <2>1. step' = step /\ file' = file
    BY <1>3 DEF vars, Load, Cancel, ClosePool, CancelUpload, ConnectionDies
  <2> QED
    BY <2>1 DEF StillThere, At, Present
<1>4. CASE (ProcessStep \/ Transfer) /\ step.pc \notin Calm
  BY <1>4, NoWayBack
<1>5. ~(Process \/ StatFails \/ PassOver \/ NothingToDo \/ StartActions)
  <2>1. Process => step'.pc = "rules"
    BY <1>0 DEF Process, StepState
  <2>2. PassOver => step'.pc = step.pc /\ step.pc = "rules"
    BY <1>0 DEF PassOver, At, StepState
  <2>3. StatFails \/ NothingToDo => step'.pc = "idle"
    BY DEF StatFails, NothingToDo, Idle
  <2>4. StartActions => step'.pc = "act"
    BY <1>0 DEF StartActions, Goto, StepState
  <2> QED
    BY <2>1, <2>2, <2>3, <2>4
<1> QED
  BY <1>1, <1>2, <1>3, <1>4, <1>5, OnlyCalm DEF Next

LEMMA CallStep == IInv /\ StillThere /\ [Next]_vars => [C!Next]_(C!callVars)
<1> SUFFICES ASSUME IInv, StillThere, Next PROVE C!Next \/ UNCHANGED C!callVars
  <2>1. UNCHANGED vars => UNCHANGED C!callVars
    BY CallUnchanged DEF vars
  <2> QED
    BY <2>1
<1>0. step \in StepState /\ file \in FileState /\ step' \in StepState /\ file' \in FileState
  BY Typed, Steps, TypesApartNext DEF IInv, Data
<1>1. CASE Load \/ ClosePool \/ CancelUpload \/ \E h \in HostNames : ConnectionDies(h)
  BY <1>1, CallUnchanged DEF Load, ClosePool, CancelUpload, ConnectionDies
<1>2. CASE Cancel
  <2>1. UNCHANGED <<Disk, CallPc, CallPath, CallDry>>
    BY <1>2, Alike DEF Cancel, Disk
  <2>2. C!Cancel
    BY <1>2, <2>1 DEF Cancel, C!Cancel, CallPath
  <2> QED
    BY <2>2 DEF C!Next
<1>3. CASE Grow
  <2>1. PICK z \in 1..MaxSize : file' = [file EXCEPT !.size = z]
    BY <1>3 DEF Grow
  <2>2. UNCHANGED <<CallPc, CallPath, CallDry>>
    BY <1>3, Alike DEF Grow
  <2>3. Disk' = [Disk EXCEPT !["file"] = z]
    BY <1>0, <2>1 DEF Disk, FileState
  <2>4. C!Change("file")
    BY <1>3, <2>2, <2>3 DEF Grow, C!Change, Disk, CallPath
  <2> QED
    BY <2>4 DEF C!Next
<1>4. CASE Offer
  <2>1. step.pc = "idle" /\ step' = [Idle EXCEPT !.pc = "offered"] /\ file' = file /\ ctxDone' = ctxDone
    BY <1>4 DEF Offer, At
  <2>2. step'.pc = "offered"
    BY <2>1 DEF Idle
  <2>3. CallPc = "out" /\ CallPc' = "called" /\ CallPath' = "file" /\ CallDry = FALSE /\ CallDry' = FALSE
    BY <1>0, <2>1, <2>2, PhaseNow, PhaseNext
  <2>4. C!Call("file")
    BY <2>1, <2>3 DEF C!Call, Disk, CallPath, CallDry
  <2> QED
    BY <2>4 DEF C!Next
<1>5. CASE Process
  <2>1. PICK dry \in BOOLEAN : step' = [step EXCEPT !.pc = "rules", !.dry = dry, !.size = file.size]
    BY <1>5 DEF Process
  <2>2. step.pc = "offered" /\ step'.pc = "rules" /\ file' = file /\ ctxDone' = ctxDone
    BY <1>5 DEF Process, Mid, At
  <2>3. /\ CallPc = "called" /\ CallPc' = "deciding" /\ CallPath = "file" /\ CallPath' = "file"
        /\ CallDry' \in BOOLEAN
    BY <1>0, <2>2, PhaseNow, PhaseNext, StepFields
  <2>4. file.size # 0
    BY <2>2 DEF StillThere, Present, At
  <2>5. C!Look
    BY <2>2, <2>3, <2>4 DEF C!Look, CallPath
  <2> QED
    BY <2>5 DEF C!Next
<1>6. CASE PassOver
  <2>1. /\ step.pc = "rules" /\ step' = [step EXCEPT !.rule = @ + 1]
        /\ file' = file /\ ctxDone' = ctxDone
    BY <1>6 DEF PassOver, Mid, At
  <2>2. step'.pc = "rules" /\ step'.dry = step.dry
    BY <1>0, <2>1 DEF StepState
  <2>3. UNCHANGED <<CallPc, CallPath, CallDry>>
    BY <1>0, <2>1, <2>2, PhaseNow, PhaseNext
  <2> QED
    BY <2>1, <2>3 DEF C!callVars, Disk, CallPath, CallDry
<1>7. CASE NothingToDo
  <2>1. step.pc = "rules" /\ step' = Idle /\ file' = file /\ ctxDone' = ctxDone
    BY <1>7 DEF NothingToDo, Mid, At
  <2>2. step'.pc = "idle"
    BY <2>1 DEF Idle
  <2>3. CallPc = "deciding" /\ CallPc' = "out" /\ CallPath' = "no path" /\ CallDry' = FALSE
    BY <1>0, <2>1, <2>2, PhaseNow, PhaseNext
  <2>4. C!Decline
    BY <2>1, <2>3 DEF C!Decline, C!Return, CallPath
  <2> QED
    BY <2>4 DEF C!Next
<1>10. CASE StatFails
  <2>1. step.pc = "offered" /\ step' = Idle /\ file' = file /\ ctxDone' = ctxDone
    BY <1>10 DEF StatFails, Mid, At
  <2>2. step'.pc = "idle"
    BY <2>1 DEF Idle
  <2>3. CallPc = "called" /\ CallPc' = "out" /\ CallPath' = "no path" /\ CallDry' = FALSE
    BY <1>0, <2>1, <2>2, PhaseNow, PhaseNext
  <2>4. C!StatFails
    BY <2>1, <2>3 DEF C!StatFails, C!Return, CallPath
  <2> QED
    BY <2>4 DEF C!Next
<1>8. CASE StartActions
  <2>1. /\ step.pc = "rules" /\ ~step.dry /\ ~ctxDone /\ Goto("act")
        /\ file' = file /\ ctxDone' = ctxDone
    BY <1>8 DEF StartActions, Mid, At, WorksOn
  <2>2. step'.pc = "act" /\ step'.dry = step.dry
    BY <1>0, <2>1 DEF Goto, StepState
  <2>3. step'.pc \notin Calm
    BY <2>2 DEF Calm
  <2>4. /\ CallPc = "deciding" /\ CallPc' = "acting" /\ CallPath' = CallPath
        /\ CallDry' = CallDry /\ ~CallDry
    BY <1>0, <2>1, <2>2, <2>3, PhaseNow, PhaseNext
  <2>5. C!Act
    BY <2>1, <2>4 DEF C!Act, Disk, CallPath, CallDry
  <2> QED
    BY <2>5 DEF C!Next
<1>9. CASE (ProcessStep \/ Transfer) /\ step.pc \notin Calm
  <2>1. /\ file'.size \in {file.size, 0} /\ ctxDone' = ctxDone
        /\ step'.pc = "idle" \/ (step'.pc \notin Calm /\ step'.dry = step.dry)
    BY <1>9, ActionTakes
  <2>2. CallPc = "acting" /\ CallPath = "file" /\ CallDry = step.dry
    BY <1>0, <1>9, PhaseNow DEF Calm
  <2>3. Disk' = Disk \/ Disk' = [Disk EXCEPT ![CallPath] = 0]
    BY <2>1, <2>2 DEF Disk
  <2>4. CASE step'.pc = "idle"
    <3>1. CallPc' = "out" /\ CallPath' = "no path" /\ CallDry' = FALSE
      BY <1>0, <2>4, PhaseNext
    <3>2. C!End
      BY <2>1, <2>2, <3>1 DEF C!End, C!Return, C!Taken, CallPath
    <3> QED
      BY <3>2 DEF C!Next
  <2>5. CASE step'.pc \notin Calm /\ step'.dry = step.dry
    <3>1. UNCHANGED <<CallPc, CallPath, CallDry>>
      BY <1>0, <2>2, <2>5, PhaseNext DEF Calm
    <3>2. CASE Disk' = Disk
      BY <2>1, <3>1, <3>2 DEF C!callVars, Disk, CallPath, CallDry
    <3>3. CASE Disk' = [Disk EXCEPT ![CallPath] = 0]
      <4>1. C!Take
        BY <2>1, <2>2, <3>1, <3>3 DEF C!Take, C!Taken, Disk, CallPath, CallDry
      <4> QED
        BY <4>1 DEF C!Next
    <3> QED
      BY <2>3, <3>2, <3>3
  <2> QED
    BY <2>1, <2>4, <2>5
<1> QED
  BY <1>1, <1>2, <1>3, <1>4, <1>5, <1>6, <1>7, <1>8, <1>9, <1>10, OnlyCalm DEF Next

LEMMA CallInit == Init => C!Init
<1> SUFFICES ASSUME Init PROVE C!Init
  OBVIOUS
<1>1. step \in StepState /\ file \in FileState /\ step.pc = "idle" /\ ctxDone = FALSE
  BY Start, Typed DEF Init, Idle
<1>2. CallPc = "out" /\ CallPath = "no path" /\ CallDry = FALSE
  BY <1>1, PhaseNow
<1>3. Disk \in [{"file"} -> (1..MaxSize) \cup {0}]
  BY <1>1, Sizes DEF Disk, FileState
<1> QED
  BY <1>1, <1>2, <1>3 DEF C!Init, Disk, CallPath

\* From outside Process is the call of EngineCall, whatever the configuration,
\* the file and the hosts are: one look, one mode, no start once the context is
\* done, and nothing taken but its own file, by actions that it may execute.
THEOREM ProcessRefinesCall == Spec => ImplementsCall
<1>1. Init => StillThere
  BY DEF Init, StillThere, At, Idle
<1> QED
  BY <1>1, CallInit, StillThereStep, CallStep, Invariance, PTL DEF Spec, ImplementsCall, C!Spec
=============================================================================
