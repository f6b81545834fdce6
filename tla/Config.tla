------------------------------- MODULE Config -------------------------------
(***************************************************************************)
(* A configuration: which ones config.Load accepts, which ones NewEngine   *)
(* can compile, and which files a match rule matches.                      *)
(*                                                                         *)
(* A regular expression or glob is the set of the names it matches, all of *)
(* them when it is not given, and whether it compiles.  Durations are      *)
(* numbers, sizes too; extensions are in lower case.                       *)
(***************************************************************************)
EXTENDS Integers, Sequences

CONSTANTS
  Names,        \* file names
  HostNames     \* names an scp action may have for a host

-----------------------------------------------------------------------------
(* File types.                                                             *)

Extensions ==
  [Video |-> {"mkv", "mp4", "avi", "mov", "wmv", "flv", "webm", "m4v", "ts", "mpg", "mpeg"},
   Image |-> {"jpg", "jpeg", "png", "gif", "bmp", "webp", "svg", "tiff", "tif", "heic",
              "heif", "avif", "raw"},
   Audio |-> {"mp3", "flac", "wav", "aac", "ogg", "wma", "m4a", "opus"},
   Document |-> {"pdf", "doc", "docx", "xls", "xlsx", "ppt", "pptx", "txt", "rtf", "csv", "odt"},
   Archive |-> {"zip", "tar", "gz", "bz2", "xz", "7z", "rar", "zst"}]

ClassifyExt(ext) ==
  IF \E t \in DOMAIN Extensions : ext \in Extensions[t]
  THEN CHOOSE t \in DOMAIN Extensions : ext \in Extensions[t] ELSE "Other"

FileTypes == DOMAIN Extensions \cup {"Other"}

-----------------------------------------------------------------------------
(* The parsed file.                                                        *)

Pattern == [ok : BOOLEAN, names : SUBSET Names]
AnyName == [ok |-> TRUE, names |-> Names]    \* not given

\* value: the duration, which may be negative.
Age == [given : BOOLEAN, ok : BOOLEAN, value : Int]
NoAge == [given |-> FALSE, ok |-> TRUE, value |-> 0]

MatchRule == [filename_regex : Pattern, filename_glob : Pattern,
              file_type : STRING,            \* "" if not given
              min_age : Age,
              min_age_seconds : Int, min_size : Int, max_size : Int]

ActionTypes == {"move", "scp", "exec", "validate_zip", "notify"}

\* types: the fields that are given.  text is what becomes of the template in
\* dest or message: none, one that needs the file, one that does not parse.
\* home: dest begins with a tilde.
ActionConfig == [types : SUBSET ActionTypes, host : HostNames, text : {"plain", "file", "bad"},
                 home : BOOLEAN, delete_source : BOOLEAN, mode : STRING]

Lists == {"actions", "on_success", "on_fail"}

Rule == [named : BOOLEAN, match : MatchRule, actions : Seq(ActionConfig),
         on_success : Seq(ActionConfig), on_fail : Seq(ActionConfig)]

\* watch: what os.Stat finds at the paths.
Configuration == [watch : SUBSET {"dir", "file", "missing"}, hosts : SUBSET HostNames,
                  ignored : SUBSET MatchRule, rules : Seq(Rule)]

-----------------------------------------------------------------------------
(* config.Load.                                                            *)

validateMatchRule(m) ==
  /\ m.filename_regex.ok /\ m.filename_glob.ok
  /\ m.file_type \in FileTypes \cup {""}
  /\ m.min_age.given => m.min_age.ok

validateAction(c, a) ==
  /\ a.types # {}
  /\ "scp" \in a.types => a.host \in c.hosts
  /\ "validate_zip" \in a.types => a.mode \in {"true", "full"}

validatePrimary(c, r) ==     \* mutant: the hooks are not looked at
  /\ r.named /\ validateMatchRule(r.match)
  /\ \A j \in DOMAIN r.actions : validateAction(c, r.actions[j])
validateRule(c, r) ==
  /\ r.named /\ validateMatchRule(r.match)
  /\ \A l \in Lists : \A j \in DOMAIN r[l] : validateAction(c, r[l][j])

Validate(c) ==
  /\ c.watch = {"dir"}
  /\ \A m \in c.ignored : validateMatchRule(m)
  /\ \A i \in DOMAIN c.rules : validateRule(c, c.rules[i])

\* Of the destinations only those of primary actions are expanded.
ExpandedRule(r) ==
  [r EXCEPT !.actions = [j \in DOMAIN r.actions |-> [r.actions[j] EXCEPT !.home = FALSE]]]
expandPaths(c) ==
  [c EXCEPT !.rules = [i \in DOMAIN c.rules |-> ExpandedRule(c.rules[i])]]

-----------------------------------------------------------------------------
(* rules.NewEngine.                                                        *)

FirstIn(order, types) ==
  IF \E i \in DOMAIN order : order[i] \in types
  THEN order[CHOOSE i \in DOMAIN order :
               order[i] \in types /\ \A k \in 1..(i - 1) : order[k] \notin types]
  ELSE "unknown"

\* What the tray shows of an action, and the action that is made of it.
TypeName(a) == FirstIn(<<"move", "scp", "exec", "validate_zip", "notify">>, a.types)
FromConfig(a) == FirstIn(<<"move", "exec", "scp", "validate_zip", "notify">>, a.types)

HasPool(c) == c.hosts # {}      \* newSSH

Compiles(c, a) == FromConfig(a) # "unknown" /\ (FromConfig(a) = "scp" => HasPool(c))

NewEngineSucceeds(c) ==
  /\ \A i \in DOMAIN c.rules :
       /\ c.rules[i].match.filename_regex.ok
       /\ \A l \in Lists : \A j \in DOMAIN c.rules[i][l] : Compiles(c, c.rules[i][l][j])
  /\ \A m \in c.ignored : m.filename_regex.ok

SecondsFirst(m) ==       \* mutant: min_age_seconds hides min_age
  IF m.min_age_seconds > 0 THEN m.min_age_seconds
  ELSE IF m.min_age.given /\ m.min_age.ok THEN m.min_age.value ELSE 0
compileMinAge(m) ==
  IF m.min_age.given /\ m.min_age.ok THEN m.min_age.value
  ELSE IF m.min_age_seconds > 0 THEN m.min_age_seconds ELSE 0

\* f is what os.Stat and the path tell of the file.
Matches(f, m) ==
  LET minAge == compileMinAge(m)
      age == IF minAge = 0 /\ m.min_age_seconds > 0 THEN m.min_age_seconds ELSE minAge
  IN /\ f.name \in m.filename_regex.names /\ f.name \in m.filename_glob.names
     /\ m.file_type # "" => ClassifyExt(f.ext) = m.file_type
     /\ age > 0 => f.age >= age
     /\ m.min_size > 0 => f.size >= m.min_size
     /\ m.max_size > 0 => f.size <= m.max_size

ShouldIgnore(c, f) == \E m \in c.ignored : Matches(f, m)
=============================================================================
