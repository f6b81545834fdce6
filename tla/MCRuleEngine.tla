---------------------------- MODULE MCRuleEngine ----------------------------
(* RuleEngine for TLC: the rules of config.yaml.example, some that combine  *)
(* actions differently, and configurations Load has to reject.             *)
EXTENDS RuleEngine

All == [filename_regex |-> AnyName, filename_glob |-> AnyName, file_type |-> "",
        min_age |-> NoAge, min_age_seconds |-> 0, min_size |-> 0, max_size |-> 0]
Act(type) == [types |-> {type}, host |-> "seedbox", text |-> "plain", home |-> FALSE,
              delete_source |-> FALSE, mode |-> "true"]
Of(match, actions) == [named |-> TRUE, match |-> match, actions |-> actions,
                       on_success |-> <<>>, on_fail |-> <<>>]

Move == [Act("move") EXCEPT !.text = "file", !.home = TRUE]
Upload1 == [Act("scp") EXCEPT !.delete_source = TRUE]
Sorted == [Act("notify") EXCEPT !.text = "file"]

Torrents == Of([All EXCEPT !.max_size = 1], <<Upload1>>)
Videos == [Of(All, <<Move>>) EXCEPT !.on_success = <<Sorted>>]
Zips == [Of([All EXCEPT !.file_type = "Archive"], <<[Act("validate_zip") EXCEPT !.mode = "full"], Move>>)
           EXCEPT !.on_fail = <<Sorted>>]
After(n) == [given |-> TRUE, ok |-> TRUE, value |-> n]
Old == Of([All EXCEPT !.min_age = After(1), !.min_age_seconds = 2, !.min_size = 1], <<Act("exec")>>)
Check == [Of(All, <<>>) EXCEPT !.on_success = <<Sorted>>]
Both == [Of(All, <<Act("scp"), Move>>) EXCEPT !.on_fail = <<Move, Act("exec")>>]
Hooked == [Of([All EXCEPT !.min_age_seconds = 1], <<[Act("exec") EXCEPT !.types = {"exec", "scp"}]>>)
             EXCEPT !.on_success = <<[Act("scp") EXCEPT !.text = "file"]>>, !.on_fail = <<Move>>]
AnyAge == Of([All EXCEPT !.min_age = After(-1), !.min_age_seconds = 1, !.file_type = "Archive"], <<Act("notify")>>)
Film == Of([All EXCEPT !.file_type = "Video"], <<Act("exec")>>)
Other == Of([All EXCEPT !.filename_glob.names = {}], <<Move>>)
Broken == Of(All, <<[Act("move") EXCEPT !.text = "bad"]>>)

With(hosts, rs) == [watch |-> {"dir"}, hosts |-> hosts, ignored |-> {[All EXCEPT !.min_age = After(2)]}, rules |-> rs]
Good == {With({"seedbox"}, rs) : rs \in {<<Torrents, Check, Videos>>, <<Old, Both>>, <<Hooked, Zips>>}}
        \cup {With({}, rs) : rs \in {<<Check, Zips, Old>>, <<Broken>>,
                                <<Film, AnyAge>>, <<Film, Other>>}}
Bad == {With({}, <<Hooked>>), With({}, <<Both>>),
        With({}, <<[Videos EXCEPT !.named = FALSE]>>),
        With({}, <<Of([All EXCEPT !.file_type = "Movie"], <<>>)>>),
        With({}, <<[Videos EXCEPT !.on_fail = <<[Act("exec") EXCEPT !.types = {}]>>]>>),
        With({}, <<Of([All EXCEPT !.filename_regex.ok = FALSE], <<Move>>)>>),
        With({}, <<Of([All EXCEPT !.min_age = [After(0) EXCEPT !.ok = FALSE]], <<Move>>)>>),
        [With({}, <<Videos>>) EXCEPT !.watch = {"dir", "missing"}]}
MCConfigs == Good \cup Bad

MCFiles == {[name |-> "f", ext |-> "zip", age |-> n, zip |-> z] : n \in -1..1, z \in {"good", "badcrc"}}
=============================================================================
