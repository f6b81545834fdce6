----------------------------- MODULE RuleEngine -----------------------------
(***************************************************************************)
(* From the configuration file to the files it moves: main loads it and    *)
(* builds the engine, and Engine.Process executes the actions of the first *)
(* rule that matches, then the hooks.  One file of a watched directory is  *)
(* followed; other programs write to it, and create it again when it is    *)
(* gone.  move copies when the rename fails, scp uploads over a session of *)
(* the SSH pool (P), and either may fail half-way.                         *)
(*                                                                         *)
(* A file's contents are its size: it grows.                               *)
(***************************************************************************)
EXTENDS Config, FiniteSets, SequencesExt

CONSTANTS
  Configs,                      \* what the configuration file may hold
  Files,                        \* the file, but for its size
  MaxSize,                      \* bound on the growth of the file
  UsesAgent, NoHost, MaxAgents  \* see SshPool

ZipStates == {"good", "badcrc", "bad"}

ASSUME RuleEngineAssumption ==
  /\ Configs \subseteq Configuration
  /\ Files \subseteq [name : Names, ext : STRING, age : Int, zip : ZipStates]
  /\ MaxSize \in Nat \ {0} /\ MaxAgents \in Nat
  /\ UsesAgent \subseteq HostNames /\ HostNames \cap {"dest", "~", NoHost} = {}

VARIABLES
  cfg,        \* the configuration
  setup,      \* how far main is
  file,       \* the file in the watched directory, of size 0 if it is not there
  copies,     \* the file elsewhere: its size, 0 (not there) or Partial
  step,       \* where Process is: in which action of which list of which rule
  ran,        \* history: the actions this call has executed
  session,    \* the SFTP session of the upload
  ctxDone,
  conns, agentConns, call       \* see SshPool

vars == <<cfg, setup, file, copies, step, ran, session, ctxDone, conns, agentConns, call>>
poolVars == <<conns, agentConns, call>>

P == INSTANCE SshPool WITH Hosts <- HostNames

-----------------------------------------------------------------------------
Partial == -1
Places == {"dest", "~"} \cup HostNames
FromZero == [pc |-> "idle", rule |-> 0, list |-> "actions", idx |-> 0,     \* mutant
             dry |-> FALSE, size |-> 0, read |-> 0, ok |-> FALSE]
Idle == [pc |-> "idle", rule |-> 1, list |-> "actions", idx |-> 1,
         dry |-> FALSE, size |-> 0, read |-> 0, ok |-> FALSE]

\* "remove" is before os.Remove, "leave" before the deferred calls of scp.
StepState ==
  [pc : {"idle", "offered", "rules", "act", "copy", "connect", "create", "upload", "flush", "remove", "leave"},
   rule : Nat \ {0}, list : Lists, idx : Nat \ {0}, dry : BOOLEAN,
   size : 0..MaxSize,      \* of the os.FileInfo Process holds; then what was sent
   read : 0..MaxSize,      \* at the start of an upload, at the end of a copy
   ok : BOOLEAN]           \* what scp is about to return

\* One type invariant: every variable has its type.
TypeOK ==
  /\ cfg \in Configuration
  /\ setup \in {"loading", "rejected", "unbuildable", "running", "closed"}
  /\ file \in [name : Names, ext : STRING, age : Int, zip : ZipStates, size : 0..MaxSize]
  /\ copies \in [Places -> {Partial} \cup 0..MaxSize]
  /\ step \in StepState
  /\ ran \in Seq([list : Lists, idx : Nat \ {0}, ok : BOOLEAN])
  /\ session \in {"none", "open", "closed"}
  /\ ctxDone \in BOOLEAN
  /\ P!TypeOK

Init ==
  /\ cfg \in Configs
  /\ setup = "loading"
  /\ \E f \in Files : file = [name |-> f.name, ext |-> f.ext, age |-> f.age, zip |-> f.zip, size |-> 1]
  /\ copies = [p \in Places |-> 0]
  /\ step = Idle /\ ran = <<>>
  /\ session = "none" /\ ctxDone = FALSE
  /\ P!Init

Present == file.size > 0
rules == cfg.rules
TheRule == rules[step.rule]
Action == TheRule[step.list][step.idx]
Doing(type) == FromConfig(Action) = type

At(pc) == step.pc = pc
Goto(pc) == step' = [step EXCEPT !.pc = pc]

-----------------------------------------------------------------------------
(* main, and the other programs.                                           *)

\* Load expands before it validates.
Load ==
  /\ setup = "loading"
  /\ cfg' = expandPaths(cfg)
  /\ setup' = IF ~Validate(cfg') THEN "rejected"
              ELSE IF ~NewEngineSucceeds(cfg') THEN "unbuildable" ELSE "running"
  /\ UNCHANGED <<file, copies, step, ran, session, ctxDone, poolVars>>

Cancel ==
  /\ setup = "running" /\ ~ctxDone /\ ctxDone' = TRUE
  /\ UNCHANGED <<cfg, setup, file, copies, step, ran, session, poolVars>>

\* runtimeState.Close, for which its lock waits until Process is over.
ClosePool ==
  /\ setup = "running" /\ ctxDone /\ At("idle")
  /\ setup' = "closed"
  /\ P!Close
  /\ UNCHANGED <<cfg, file, copies, step, ran, session, ctxDone>>

\* Written to, or a new file of that name.
Grow ==
  /\ setup = "running" /\ file.size < MaxSize
  /\ \E s \in 1..MaxSize : s > file.size /\ file' = [file EXCEPT !.size = s]
  /\ UNCHANGED <<cfg, setup, copies, step, ran, session, ctxDone, poolVars>>

ConnectionDies(h) ==
  /\ setup = "running" /\ P!Dies(h)
  /\ UNCHANGED <<cfg, setup, file, copies, step, ran, session, ctxDone>>

-----------------------------------------------------------------------------
(* Engine.Process.                                                         *)

Mid == UNCHANGED <<cfg, setup, file, copies, ran, session, ctxDone, poolVars>>

\* handlePath.  The file may change before Process looks at it.
Offer ==
  /\ setup \in {"running", "closed"} /\ At("idle")
  /\ Present /\ ~ShouldIgnore(cfg, file)
  /\ step' = [Idle EXCEPT !.pc = "offered"] /\ ran' = <<>>
  /\ UNCHANGED <<cfg, setup, file, copies, session, ctxDone, poolVars>>

Process ==
  /\ At("offered")
  /\ \E dry \in BOOLEAN : step' = [step EXCEPT !.pc = "rules", !.dry = dry, !.size = file.size]
  /\ Mid

\* os.Stat fails, though the file is there.
StatFails == At("offered") /\ step' = Idle /\ Mid

Info == [file EXCEPT !.size = step.size]
HasActions(r) == r.actions # <<>>

WorksOnCancelled == TRUE       \* mutant: ctx.Done() is not looked at
WorksOn == ~ctxDone

\* Not matched, or a rule without actions, whose hooks do not count.
PassOver ==
  /\ At("rules") /\ step.rule <= Len(rules) /\ WorksOn
  /\ ~Matches(Info, TheRule.match) \/ ~HasActions(TheRule)
  /\ step' = [step EXCEPT !.rule = @ + 1]
  /\ Mid

\* The context is done, no rule is left, or the rule is described only.
NothingToDo ==
  /\ At("rules")
  /\ \/ ctxDone /\ step.rule <= Len(rules)
     \/ step.rule > Len(rules)
     \/ /\ step.rule <= Len(rules) /\ step.dry
        /\ Matches(Info, TheRule.match) /\ HasActions(TheRule)
  /\ step' = Idle
  /\ Mid

StartActions ==
  /\ At("rules") /\ step.rule <= Len(rules) /\ WorksOn
  /\ Matches(Info, TheRule.match) /\ HasActions(TheRule) /\ ~step.dry
  /\ Goto("act")
  /\ Mid

\* The list that comes after an action: the hooks end when they end.
NextListAnyway(ok) ==         \* mutant: a failed action does not end the list
  IF step.list # "actions" THEN step.list
  ELSE IF step.idx < Len(TheRule.actions) THEN "actions" ELSE IF ok THEN "on_success" ELSE "on_fail"
NextList(ok) ==
  IF step.list # "actions" THEN step.list
  ELSE IF ~ok THEN "on_fail"
  ELSE IF step.idx < Len(TheRule.actions) THEN "actions" ELSE "on_success"

\* Execute returns.
Finish(ok) ==
  /\ LET list == NextList(ok)
         idx == IF list = step.list THEN step.idx + 1 ELSE 1
     IN step' = IF idx <= Len(TheRule[list])
                THEN [step EXCEPT !.pc = "act", !.list = list, !.idx = idx, !.read = 0, !.ok = FALSE]
                ELSE [Idle EXCEPT !.rule = step.rule]
  /\ ran' = Append(ran, [list |-> step.list, idx |-> step.idx, ok |-> ok])

-----------------------------------------------------------------------------
(* exec, validate_zip, notify.                                             *)

\* template.ResolveDest: what needs the file's data needs the file.
Resolves == Action.text = "plain" \/ (Action.text = "file" /\ Present)

\* The command may remove the file; once ctx is done none is started.
Exec ==
  /\ At("act") /\ Doing("exec")
  /\ \E ok, keeps \in BOOLEAN :
       /\ ctxDone => ~ok /\ keeps
       /\ file' = IF keeps THEN file ELSE [file EXCEPT !.size = 0]
       /\ Finish(ok)
  /\ UNCHANGED <<cfg, setup, copies, session, ctxDone, poolVars>>

\* A file that is fine may not open.
ValidateZip ==
  /\ At("act") /\ Doing("validate_zip")
  /\ \E ok \in BOOLEAN :
       /\ ok => Present /\ file.zip \in (IF Action.mode = "full" THEN {"good"} ELSE {"good", "badcrc"})
       /\ Finish(ok)
  /\ UNCHANGED <<cfg, setup, file, copies, session, ctxDone, poolVars>>

\* An osascript that fails is only logged.
Notify ==
  /\ At("act") /\ Doing("notify")
  /\ Finish(Resolves)
  /\ UNCHANGED <<cfg, setup, file, copies, session, ctxDone, poolVars>>

-----------------------------------------------------------------------------
(* move.                                                                   *)

Target == IF Doing("scp") THEN Action.host ELSE IF Action.home THEN "~" ELSE "dest"
Put(size) == copies' = [copies EXCEPT ![Target] = size]
Gone == file' = [file EXCEPT !.size = 0]

\* The template, the directory or, without the file, rename and open fail; or
\* the destination cannot be opened.
MoveFails ==
  /\ At("act") /\ Doing("move")
  /\ Finish(FALSE)
  /\ UNCHANGED <<cfg, setup, file, copies, session, ctxDone, poolVars>>

Rename ==
  /\ At("act") /\ Doing("move") /\ Resolves /\ Present
  /\ Put(file.size) /\ Gone
  /\ Finish(TRUE)
  /\ UNCHANGED <<cfg, setup, session, ctxDone, poolVars>>

\* rename fails: whatever was at the destination is truncated.
OpenCopy ==
  /\ At("act") /\ Doing("move") /\ Resolves /\ Present
  /\ Put(Partial) /\ Goto("copy")
  /\ UNCHANGED <<cfg, setup, file, ran, session, ctxDone, poolVars>>

Copy ==
  /\ At("copy")
  /\ Put(file.size)
  /\ step' = [step EXCEPT !.pc = "remove", !.read = file.size]
  /\ UNCHANGED <<cfg, setup, file, ran, session, ctxDone, poolVars>>

IgnoresCopyError == Goto("remove") /\ UNCHANGED ran    \* mutant
ReturnsCopyError == Finish(FALSE)

CopyFails ==
  /\ At("copy")
  /\ ReturnsCopyError
  /\ UNCHANGED <<cfg, setup, file, copies, session, ctxDone, poolVars>>

-----------------------------------------------------------------------------
(* scp.                                                                    *)

UploadMid == UNCHANGED <<cfg, setup, file, ran, ctxDone, poolVars>>
Leave(ok) == step' = [step EXCEPT !.pc = "leave", !.ok = ok]

ScpFails ==
  /\ At("act") /\ Doing("scp") /\ ~Resolves
  /\ Finish(FALSE)
  /\ UNCHANGED <<cfg, setup, file, copies, session, ctxDone, poolVars>>

AskPool ==
  /\ At("act") /\ Doing("scp") /\ Resolves
  /\ P!GetConn(Action.host) /\ Goto("connect")
  /\ UNCHANGED <<cfg, setup, file, copies, ran, session, ctxDone>>

Connecting ==
  /\ At("connect") /\ (P!Check \/ P!Authenticate \/ P!Connect)
  /\ UNCHANGED <<cfg, setup, file, copies, step, ran, session, ctxDone>>

PoolFails ==
  /\ At("connect") /\ P!Fail
  /\ Finish(FALSE)
  /\ UNCHANGED <<cfg, setup, file, copies, session, ctxDone>>

OpenSession ==
  /\ At("connect") /\ P!Session
  /\ Goto("create") /\ session' = "open"
  /\ UNCHANGED <<cfg, setup, file, copies, ran, ctxDone>>

Reaches == session = "open" /\ conns[Action.host] = "up"

\* The source is opened and measured, the remote file created or truncated.
Create ==
  /\ At("create") /\ Present /\ Reaches
  /\ Put(Partial)
  /\ step' = [step EXCEPT !.pc = "upload", !.read = file.size]
  /\ UNCHANGED session /\ UploadMid

Upload ==
  /\ At("upload") /\ Reaches
  /\ step' = [step EXCEPT !.pc = "flush", !.size = file.size]
  /\ UNCHANGED <<copies, session>> /\ UploadMid

\* The close that flushes the last writes, then the size is compared.
Flush ==
  /\ At("flush") /\ Reaches
  /\ Put(step.size)
  /\ IF step.size # step.read THEN Leave(FALSE)
     ELSE IF Action.delete_source THEN Goto("remove") ELSE Leave(TRUE)
  /\ UNCHANGED session /\ UploadMid

AfterIgnoredError ==           \* mutant: the error of dst.Close is dropped
  IF At("flush") /\ Action.delete_source THEN Goto("remove") ELSE Leave(At("flush"))
AfterUploadError == Leave(FALSE)

UploadFails ==
  /\ At("create") \/ At("upload") \/ At("flush")
  /\ AfterUploadError
  /\ UNCHANGED <<copies, session>> /\ UploadMid

\* os.Remove, for move and scp.
RemoveSource ==
  /\ At("remove") /\ Gone
  /\ IF Doing("scp") THEN Leave(TRUE) /\ UNCHANGED ran ELSE Finish(TRUE)
  /\ UNCHANGED <<cfg, setup, copies, session, ctxDone, poolVars>>

RemoveFails ==
  /\ At("remove")
  /\ IF Doing("scp") THEN Leave(FALSE) /\ UNCHANGED ran ELSE Finish(FALSE)
  /\ UNCHANGED <<cfg, setup, file, copies, session, ctxDone, poolVars>>

\* The deferred calls: the session is closed, maybe for the second time, and
\* an error of that is returned if there is no other.
CloseSession ==
  /\ At("leave")
  /\ session' = "none"
  /\ \E closed \in BOOLEAN : Finish(step.ok /\ closed)
  /\ UNCHANGED <<cfg, setup, file, copies, ctxDone, poolVars>>

SessionKept == session       \* mutant: nothing ends a transfer
SessionClosed == "closed"

\* The goroutine that waits for ctx while the transfer is on.
CancelUpload ==
  /\ ctxDone /\ session = "open"
  /\ session' = SessionClosed
  /\ UNCHANGED <<cfg, setup, file, copies, step, ran, ctxDone, poolVars>>

-----------------------------------------------------------------------------
ProcessStep ==
  \/ Process \/ StatFails \/ PassOver \/ NothingToDo \/ StartActions
  \/ Exec \/ ValidateZip \/ Notify
  \/ MoveFails \/ Rename \/ OpenCopy \/ Copy \/ CopyFails
  \/ ScpFails \/ AskPool \/ Connecting \/ PoolFails \/ OpenSession
  \/ RemoveSource \/ RemoveFails \/ CloseSession

Transfer == Create \/ Upload \/ Flush \/ UploadFails

Next ==
  \/ Load \/ Cancel \/ ClosePool \/ Grow \/ \E h \in HostNames : ConnectionDies(h)
  \/ Offer \/ ProcessStep \/ Transfer \/ CancelUpload

Spec == Init /\ [][Next]_vars

\* The goroutines run; commands that are killed and local files come to an end.
\* getConn need not, it has no timeout, and an open session may stall for ever.
Fairness ==
  /\ WF_vars(ProcessStep /\ ~At("connect"))
  /\ WF_vars(Transfer /\ session # "open")
  /\ WF_vars(CancelUpload)

FairSpec == Spec /\ Fairness

-----------------------------------------------------------------------------
(* Properties.                                                             *)

\* README.md: "evaluates rules top-down, first match wins".  What is executed
\* belongs to the first rule with actions all of whose criteria the file met
\* when Process looked at it.  min_age_seconds counts when min_age is not given
\* or zero; a min_age that is negative is no criterion, and leaves none.
Meets(f, m) ==
  /\ f.name \in m.filename_regex.names \cap m.filename_glob.names
  /\ m.file_type \in {"", ClassifyExt(f.ext)}
  /\ LET bound == IF m.min_age.given /\ m.min_age.value # 0 THEN m.min_age.value ELSE m.min_age_seconds
     IN bound <= 0 \/ bound <= f.age
  /\ (m.min_size <= 0 \/ m.min_size <= f.size) /\ (m.max_size <= 0 \/ f.size <= m.max_size)

FirstMatchWins ==
  [][At("rules") /\ step'.pc = "act" =>
       step.rule = SelectInSeq(rules, LAMBDA r : HasActions(r) /\ Meets(Info, r.match))]_vars

\* The actions run in order up to the first failure, and then exactly one list
\* of hooks, to its end whatever fails: when Process is over, ran is that.
RunsAsConfigured ==
  At("idle") /\ ran # <<>> =>
    LET failed(k) == ran[k].list = "actions" /\ ~ran[k].ok
        n == Cardinality({k \in DOMAIN ran : ran[k].list = "actions"})
        hooks == IF failed(n) THEN "on_fail" ELSE "on_success"
    IN /\ n = Len(TheRule.actions) \/ failed(n)
       /\ Len(ran) = n + Len(TheRule[hooks])
       /\ \A k \in DOMAIN ran :
            /\ ran[k].list = IF k <= n THEN "actions" ELSE hooks
            /\ ran[k].idx = IF k <= n THEN k ELSE k - n
            /\ k < n => ran[k].ok

\* move and scp remove the file only when all of it is elsewhere, but for what
\* is written to it between the end of the copy and the removal.
NothingDeletedUncopied ==
  [][Present /\ file'.size = 0 /\ ~Doing("exec") =>
       \E p \in Places : copies'[p] = file.size \/ (step.read # 0 /\ copies'[p] = step.read)]_vars

\* A move or an upload that is reported to have worked has left a whole file.
SuccessMeansDelivered ==
  [][Len(ran') > Len(ran) /\ Last(ran').ok /\ FromConfig(Action) \in {"move", "scp"} =>
       copies'[Target] # Partial /\ copies'[Target] >= 1 /\ copies'[Target] >= step.read]_vars

\* What Load accepts can be compiled, hooks included, and the pool is never
\* asked for a host that it does not know.
AcceptedConfigWorks ==
  setup # "unbuildable" /\ (call.pc # "out" => call.host \in cfg.hosts)

\* "agent socket connections to close on shutdown" (Pool): after Close nothing
\* is open, whatever died or failed before, and Process opens nothing again.
NothingLeftOpen ==
  setup = "closed" => agentConns = 0 /\ \A h \in HostNames : conns[h] = "none"

\* From outside it is the call that Daemon takes it for: it acts in the live
\* mode only, begins before the context is done, and takes away its own file
\* and only while it acts.
CallPc == IF At("idle") THEN "out" ELSE IF At("offered") THEN "called"
          ELSE IF At("rules") THEN "deciding" ELSE "acting"
C == INSTANCE EngineCall WITH
       Paths <- {"file"}, Changing <- {"file"}, NoPath <- "no path",
       Contents <- 1..MaxSize, Gone <- 0,
       content <- [p \in {"file"} |-> file.size],
       pc <- CallPc,
       path <- IF At("idle") THEN "no path" ELSE "file",
       dry <- CallPc \in {"deciding", "acting"} /\ step.dry
ImplementsCall == C!Spec

\* "closing the session unblocks an in-flight or stalled copy" (scp.go): once
\* the context is done the call under way ends, unless it is stuck in getConn,
\* which no context reaches.
CancelEndsProcess == []<>(ctxDone => At("idle") \/ At("connect"))
=============================================================================
