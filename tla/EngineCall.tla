----------------------------- MODULE EngineCall -----------------------------
(***************************************************************************)
(* A call of Engine.Process as the rest of the program may rely on it.     *)
(* Daemon takes the call for this and RuleEngine is its inside; both       *)
(* implement this module.  The call looks at its file once, and in the     *)
(* mode it finds then.  Only if that is the live mode and the context is   *)
(* not done does it begin to act, and only then does it take files away:   *)
(* its own, whenever it acts and as often as the file comes back.  What    *)
(* else happens to files is done by other programs.                        *)
(***************************************************************************)
CONSTANTS
  Paths, NoPath,
  Contents, Gone,    \* what a file can hold, and that it is not there
  Changing           \* the paths other programs write to

VARIABLES
  content,    \* the disk
  ctxDone,    \* the context is cancelled
  pc,         \* where the call is
  path,       \* the file it is called for
  dry         \* the mode it works in

callVars == <<content, ctxDone, pc, path, dry>>

Init ==
  /\ content \in [Paths -> Contents \cup {Gone}]
  /\ ctxDone = FALSE
  /\ pc = "out" /\ path = NoPath /\ dry = FALSE

Change(p) ==
  /\ \E c \in Contents \cup {Gone} : content' = [content EXCEPT ![p] = c]
  /\ UNCHANGED <<ctxDone, pc, path, dry>>

Cancel ==
  /\ ctxDone' = TRUE
  /\ UNCHANGED <<content, pc, path, dry>>

Call(p) ==
  /\ pc = "out"
  /\ pc' = "called" /\ path' = p
  /\ UNCHANGED <<content, ctxDone, dry>>

Return == pc' = "out" /\ path' = NoPath /\ dry' = FALSE /\ UNCHANGED ctxDone

\* os.Stat fails, as it must when nothing is there, or is followed by the copy
\* of the engine's flag.
StatFails == pc = "called" /\ Return /\ UNCHANGED content

Look ==
  /\ pc = "called" /\ content[path] # Gone
  /\ pc' = "deciding" /\ dry' \in BOOLEAN
  /\ UNCHANGED <<content, ctxDone, path>>

\* No rule matches, the context is done, or the rule is only described.
Decline == pc = "deciding" /\ Return /\ UNCHANGED content

Act ==
  /\ pc = "deciding" /\ ~dry /\ ~ctxDone
  /\ pc' = "acting"
  /\ UNCHANGED <<content, ctxDone, path, dry>>

Taken == content' = [content EXCEPT ![path] = Gone]

Take ==
  /\ pc = "acting" /\ Taken
  /\ UNCHANGED <<ctxDone, pc, path, dry>>

\* The last action or hook ends, and may take the file as it does.
End ==
  /\ pc = "acting"
  /\ Taken \/ UNCHANGED content
  /\ Return

Next ==
  \/ \E p \in Changing : Change(p)
  \/ Cancel
  \/ \E p \in Paths : Call(p)
  \/ StatFails \/ Look \/ Decline \/ Act \/ Take \/ End

Spec == Init /\ [][Next]_callVars
=============================================================================
