--------------------------- MODULE AutomationPage ---------------------------
(***************************************************************************)
(* The automation settings page (app.jsx): every control saves at once,    *)
(* and what it sends is built from the copy of the configuration that the  *)
(* page holds, a whole section for one changed value.  The switches that   *)
(* make the automation act for real ask first.  Maintenance mode lives in  *)
(* the browser and is copied to the configuration by an effect.            *)
(***************************************************************************)
EXTENDS ConfigFile

CONSTANTS
    Nodes,          \* cluster nodes
    Presets,        \* names of the schedule presets
    Numbers,        \* what a number field can hold
    Null,           \* what parseInt('') becomes in JSON, and React's null
    Parts           \* sets of controls, one of which is used in a behaviour

VARIABLES
    automationConfig,   \* the page's copy of the configuration
    maintenanceNodes,   \* nodes in maintenance mode, here and in localStorage
    confirming,         \* confirmations asked for and not answered
    editingPreset,      \* null, "info", or the preset being edited
    confirmed,          \* history: risky settings that were ever confirmed
    part                \* the controls used in this behaviour

automationVars == <<automationConfig, maintenanceNodes, confirming,
                    editingPreset, confirmed, part>>

Rules == {"limit", "ignore_tags", "restarts", "rollback", "rollback_hours"}
Safety == {"max_cpu", "pause"}
Schedule == {"timezone", "migration_windows", "blackout_windows"}
Balance == {"balancing", "guest_count"}
AutomationFields == {"enabled", "dry_run", "interval", "presets", "maintenance"}
                    \cup Rules \cup Safety \cup Schedule \cup Balance

NumberOrNull == Numbers \cup {Null}

\* What a control shows for a value the page does not have.
Fallback ==
    [enabled |-> FALSE, dry_run |-> TRUE, interval |-> 1, limit |-> 1,
     max_cpu |-> 1, ignore_tags |-> TRUE, restarts |-> FALSE,
     rollback |-> TRUE, rollback_hours |-> 1, pause |-> FALSE,
     presets |-> [p \in Presets |-> 1], timezone |-> "UTC",
     migration_windows |-> <<>>, blackout_windows |-> <<>>,
     balancing |-> FALSE, guest_count |-> 1, maintenance |-> {}]

Shown(f) == IF f \in DOMAIN automationConfig THEN automationConfig[f] ELSE Fallback[f]

\* useState(...): the page's copy until its first answer
DefaultConfig ==
    [enabled |-> FALSE, dry_run |-> FALSE, interval |-> 1, limit |-> 1,
     max_cpu |-> 1, presets |-> [p \in Presets |-> 1], maintenance |-> {}]

-----------------------------------------------------------------------------
(* Saving.                                                                 *)

\* { field: value }
Change(field, value) == [f \in {field} |-> value]

\* saveAutomationConfig({ section: { ...section, change } }), where the user
\* wants the fields of `wish` to have their new values
SaveAs(section, change, wish) ==
    Save(Call("automation",
              [f \in DOMAIN change \cup (section \cap DOMAIN automationConfig) |->
                  IF f \in DOMAIN change THEN change[f] ELSE automationConfig[f]],
              TRUE), wish)

SaveAutomationConfig(section, change) == SaveAs(section, change, change)

\* HearAutomation, did it keep the page's copy.
HearAutomation_Keeps(c) ==
    /\ c.kind \in {"automation", "getAutomation"}
    /\ Hear(c, {})
    /\ UNCHANGED automationVars

\* An answer with the configuration replaces the page's copy.
HearAutomation(c) ==
    /\ c.kind \in {"automation", "getAutomation"}
    /\ Hear(c, {})
    /\ automationConfig' = IF c.ok THEN [f \in AutomationFields |-> Result(c)[f]]
                           ELSE automationConfig
    /\ UNCHANGED <<maintenanceNodes, confirming, editingPreset, confirmed, part>>

\* A control that saves `change` and nothing else happens.
Edit(control, section, change) ==
    /\ control \in part
    /\ SaveAutomationConfig(section, change)
    /\ UNCHANGED <<automationConfig, maintenanceNodes, confirming,
                   editingPreset, confirmed, part>>

Ask(what) ==
    /\ confirming' = confirming \cup {what}
    /\ UNCHANGED <<automationConfig, maintenanceNodes, editingPreset,
                   confirmed, part, fileVars>>

-----------------------------------------------------------------------------
(* Switches that ask before they take the value `risky`.                   *)
GuardedSwitch(f, section, risky) ==
    \/ f \in part /\ Shown(f) # risky /\ Ask(f)
    \/ /\ f \in confirming
       /\ \/ /\ SaveAutomationConfig(section, Change(f, risky))
             /\ confirmed' = confirmed \cup {f}
          \/ UNCHANGED <<confirmed, fileVars>>
       /\ confirming' = confirming \ {f}
       /\ UNCHANGED <<automationConfig, maintenanceNodes, editingPreset, part>>
    \/ Shown(f) = risky /\ Edit(f, section, Change(f, ~risky))

\* EnableAutomation, did it not ask.
EnableAutomation_Unasked == Edit("enabled", {}, Change("enabled", ~Shown("enabled")))

EnableAutomation == GuardedSwitch("enabled", {}, TRUE)
DryRun == GuardedSwitch("dry_run", {}, FALSE)
AllowContainerRestarts == GuardedSwitch("restarts", Rules, TRUE)

-----------------------------------------------------------------------------
(* Numbers, switches and the timezone.  Every number field saves null when *)
(* it is emptied; RuleNumbers has that case for all of them.               *)

CheckInterval == \E n \in Numbers : Edit("interval", {}, Change("interval", n))

RuleNumbers == \E n \in NumberOrNull : Edit("limit", Rules, Change("limit", n))

SafetyNumbers == \E n \in Numbers : Edit("max_cpu", Safety, Change("max_cpu", n))

RuleSwitches == Edit("ignore_tags", Rules, Change("ignore_tags", ~Shown("ignore_tags")))

SafetySwitches == Edit("pause", Safety, Change("pause", ~Shown("pause")))

RollbackDetection ==
    \/ Edit("rollback", Rules, Change("rollback", ~Shown("rollback")))
    \/ /\ Shown("rollback")
       /\ \E n \in Numbers : Edit("rollback", Rules, Change("rollback_hours", n))

Timezone == \E z \in {"UTC", "Europe/Berlin"} :
                Edit("timezone", Schedule, Change("timezone", z))

-----------------------------------------------------------------------------
(* Schedule presets: edited in place, applied by two clicks.               *)

EditPresets ==
    /\ "presets" \in part
    /\ \/ editingPreset' = IF editingPreset = Null THEN "info" ELSE Null
       \/ editingPreset # Null /\ editingPreset' \in Presets \cup {Null}
    /\ UNCHANGED <<automationConfig, maintenanceNodes, confirming, confirmed, part, fileVars>>

EditPresetValue ==
    /\ editingPreset \in Presets
    /\ \E n \in Numbers :
         Edit("presets", {}, 
              Change("presets", [Shown("presets") EXCEPT ![editingPreset] = n]))

ApplyPreset(p) ==
    /\ "presets" \in part
    /\ editingPreset = Null
    /\ IF p \in confirming
       THEN /\ SaveAutomationConfig(Rules, [f \in {"interval", "limit"} |-> Shown("presets")[p]])
            /\ confirming' = confirming \ {p}
            /\ UNCHANGED <<automationConfig, maintenanceNodes, editingPreset,
                           confirmed, part>>
       ELSE /\ confirming' = (confirming \ Presets) \cup {p}
            /\ UNCHANGED <<automationConfig, maintenanceNodes, editingPreset,
                           confirmed, part, fileVars>>

-----------------------------------------------------------------------------
(* Maintenance mode.                                                       *)

\* The button of a node, and the effect that runs because maintenanceNodes has
\* changed: it saves the nodes unless the page's copy has them already.
ToggleMaintenance(n) ==
    /\ "maintenance" \in part
    /\ maintenanceNodes' = IF n \in maintenanceNodes THEN maintenanceNodes \ {n}
                           ELSE maintenanceNodes \cup {n}
    /\ IF maintenanceNodes' # Shown("maintenance")
       THEN SaveAutomationConfig({}, Change("maintenance", maintenanceNodes'))
       ELSE UNCHANGED fileVars
    /\ UNCHANGED <<automationConfig, confirming, editingPreset, confirmed, part>>

\* The same effect when the page is loaded: it compares what localStorage kept
\* with the default configuration, while the real one is being read.
MountSaves ==
    IF maintenanceNodes # DefaultConfig.maintenance
    THEN {Call("automation", Change("maintenance", maintenanceNodes), TRUE)}
    ELSE {}
=============================================================================
