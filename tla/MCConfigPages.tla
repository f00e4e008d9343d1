--------------------------- MODULE MCConfigPages ---------------------------
\* The pages with one or two values of everything.
EXTENDS ConfigPages

MCFile ==
    [enabled |-> FALSE, dry_run |-> TRUE, interval |-> 1, limit |-> 1,
     max_cpu |-> 1, ignore_tags |-> TRUE, restarts |-> FALSE,
     rollback |-> TRUE, rollback_hours |-> 1, pause |-> FALSE,
     presets |-> [p \in Presets |-> 2], timezone |-> "UTC",
     migration_windows |-> <<[id |-> 0, name |-> "a", days |-> {"Mon"}, times |-> "day"]>>,
     blackout_windows |-> <<>>,
     balancing |-> FALSE, guest_count |-> 1, maintenance |-> {},
     collection_interval |-> 1, ui_interval |-> 1, token |-> "t1",
     provider |-> "local", model |-> 1, collection |-> 1, host |-> "h1",
     root_balancing |-> FALSE, root_guest_count |-> 1, penalty |-> "default"]

MCImports == {[MCFile EXCEPT !.enabled = TRUE, !.dry_run = FALSE, !.maintenance = {"n1"},
                                 !.token = "t3"]}

MCParts == {{"enabled"}, {"dry_run"}, {"restarts", "ignore_tags"}, {"presets"},
            {"interval", "pause"}, {"limit"}, {"rollback"}, {"max_cpu"}, {"timezone"},
            {"add", "reliable"}, {"edit", "remove"}, {"maintenance"}, {"balancing"},
            {"provider"}, {"model"}, {"token"}, {"collection"}, {"host"}, {"penalty"},
            {"import"}}
MCMaintenance == {{"maintenance"}}
=============================================================================
