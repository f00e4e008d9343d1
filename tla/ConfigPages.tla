----------------------------- MODULE ConfigPages ----------------------------
(***************************************************************************)
(* The two configuration pages in one browser, over the endpoints that     *)
(* keep config.json.                                                       *)
(***************************************************************************)
EXTENDS TimeWindows, SettingsPage

CONSTANT InitialFile    \* config.json as the installation leaves it

vars == <<fileVars, automationVars, windowVars, settingsVars>>

Fields == AutomationFields \cup SettingsFields \cup {"penalty"}

\* No two of a list's windows are the same one.
Distinct(list) == \A i, j \in DOMAIN list : list[i].id = list[j].id => i = j
Ids(list) == {list[i].id : i \in DOMAIN list}

\* A file's windows, none of them one that a later save will make.
WindowsOK(config_, most) ==
    /\ \A l \in Lists : /\ config_[l] \in Seq(Windows)
                       /\ Distinct(config_[l])
                       /\ Ids(config_[l]) \cap (most + 1..MaxSaves) = {}
    /\ Ids(config_["migration_windows"]) \cap Ids(config_["blackout_windows"]) = {}

ASSUME FilesAssumption ==
    \A f \in Imports \cup {InitialFile} : f = [x \in Fields |-> f[x]] /\ WindowsOK(f, 0)

SettingsControls ==
    {"provider", "model", "token", "collection", "penalty", "host", "import", "balancing"}

AutomationControls ==
    {"enabled", "dry_run", "restarts", "interval", "limit", "max_cpu", "ignore_tags",
     "pause", "rollback", "timezone", "presets", "maintenance", "edit", "remove", "add"}

\* "reliable" is no control: nothing crashes and nobody reloads a page.
ASSUME PartsAssumption ==
    \A p \in Parts : p \subseteq SettingsControls \cup AutomationControls \cup {"reliable"}

\* What a page reads when it is loaded: of the three reads, those that the
\* controls of this behaviour look at.
MountGets ==
    {Get("getPenalty") : p \in part \cap {"penalty"}}
    \cup {Get("getConfig") : p \in part \cap SettingsControls}
    \cup {Get("getAutomation") : p \in part \ SettingsControls}

Init ==
    /\ part \in Parts
    /\ FileInit(InitialFile, MountGets, IF "reliable" \in part THEN MaxTroubles ELSE 0)
    /\ automationConfig = DefaultConfig
    /\ maintenanceNodes = {}
    /\ confirming = {}
    /\ editingPreset = Null
    /\ confirmed = {}
    /\ editingWindowIndex = Null
    /\ confirmRemoveWindow = Null
    /\ newWindowData = Null
    /\ config = <<>>
    /\ form = EmptyForm
    /\ penaltyConfig = Null
    /\ confirmHostChange = Null
    /\ reloadDue = FALSE
    /\ typed = {}

\* The page is loaded again, by the user or after an import: only localStorage
\* outlives it, and the maintenance effect may save at once.
Reload ==
    /\ Abandon(MountGets, MountSaves, IF reloadDue THEN 0 ELSE 1)
    /\ automationConfig' = DefaultConfig
    /\ confirming' = {}
    /\ editingPreset' = Null
    /\ editingWindowIndex' = Null
    /\ confirmRemoveWindow' = Null
    /\ newWindowData' = Null
    /\ config' = <<>>
    /\ form' = EmptyForm
    /\ penaltyConfig' = Null
    /\ confirmHostChange' = Null
    /\ reloadDue' = FALSE
    /\ typed' = {}
    /\ UNCHANGED <<maintenanceNodes, confirmed, part>>

UserOfAutomation ==
    \/ EnableAutomation \/ DryRun \/ AllowContainerRestarts
    \/ CheckInterval \/ RuleNumbers \/ SafetyNumbers \/ RuleSwitches
    \/ SafetySwitches \/ RollbackDetection \/ Timezone
    \/ EditPresets \/ EditPresetValue \/ \E p \in Presets : ApplyPreset(p)
    \/ \E n \in Nodes : ToggleMaintenance(n)

UserOfSettings ==
    \/ EditProvider \/ EditModel \/ EditToken \/ SaveSettings
    \/ ApplyCollection \/ EditPenalty \/ SavePenaltyConfig \/ ResetPenaltyConfig
    \/ ChangeHost \/ Import

Answer ==
    \E c \in calls :
      \/ HearAutomation(c) /\ UNCHANGED <<windowVars, settingsVars>>
      \/ /\ \/ HearConfig(c) \/ HearSettings(c) \/ HearCollection(c)
            \/ HearPenalty(c) \/ HearHost(c) \/ HearImport(c)
         /\ UNCHANGED windowVars

Serving == Serve /\ UNCHANGED <<automationVars, windowVars, settingsVars>>
Failing == Crash /\ UNCHANGED <<automationVars, windowVars, settingsVars>>

Next ==
    \/ UserOfAutomation /\ UNCHANGED <<windowVars, settingsVars>>
    \/ WindowActions /\ UNCHANGED settingsVars
    \/ (UserOfSettings \/ DistributionBalancing) /\ UNCHANGED windowVars
    \/ Reload
    \/ Answer
    \/ Serving
    \/ Failing

Spec == Init /\ [][Next]_vars

\* The service answers what it has taken up and the browser hears it; users do
\* as they like.
FairSpec ==
    /\ Spec
    /\ WF_vars(Serving)
    /\ WF_vars(Answer)

-----------------------------------------------------------------------------
(* Properties.                                                             *)

(* The file keeps its fields whatever is written to it, and every call is  *)
(* at a stage its endpoint has.                                            *)
TypeOK ==
    /\ file # Torn => DOMAIN file = Fields
    /\ wanted # Torn => DOMAIN wanted = Fields
    /\ DOMAIN automationConfig \subseteq AutomationFields
    /\ maintenanceNodes \subseteq Nodes
    /\ \A c \in calls : /\ c.stage \in {"sent", "loaded", "truncated", "answered"}
                        /\ c.kind = "import" \/ DOMAIN c.update \subseteq Fields
                        /\ c.stage \in {"loaded", "truncated"} =>
                             c.seen # Torn \/ c.kind = "import"

\* f has the value that lets the automation act for real.
Risky(f, config_) == config_[f] = (f # "dry_run")

(* The automation is enabled, leaves dry run, and may restart containers   *)
(* only if the user has at some time said yes to exactly that: no section  *)
(* sent along with another value, no lost update and no restart of the     *)
(* service does it (the confirmations of app.jsx).                         *)
NothingUnconfirmed ==
    file # Torn => \A f \in {"enabled", "dry_run", "restarts"} :
                     Risky(f, file) => f \in confirmed \/ Risky(f, InitialFile)

AtRest == calls = {} /\ wanted # Torn

(* A user who waits for each answer gets what was asked for: once nothing  *)
(* is in flight, the file has every edit made so far and no other change,  *)
(* although every save sends whole sections and lists by index.            *)
SettledMeansSaved == AtRest => file = wanted

(* ... and the pages show it: nothing of an earlier state of the file is   *)
(* left in the page's copies of the configuration, and the form and the    *)
(* penalty form differ from the file only where the user has typed.        *)
PagesShowTheFile ==
    AtRest /\ ~reloadDue =>
      /\ part \ SettingsControls # {} =>
           automationConfig = [f \in AutomationFields |-> file[f]]
      /\ part \cap SettingsControls # {} =>
           /\ \A f \in SettingsFields \ (typed \cap RootFields) : config[f] = file[f]
           /\ \A f \in FormFields \ typed : form[f] = file[f]
      /\ "penalty" \in part \ typed => penaltyConfig = file["penalty"]

\* The file was cut off, and no save that read it before is left to replace it.
Spoilt ==
    /\ file = Torn
    /\ \A c \in calls : c.stage # "truncated" /\ (c.stage = "loaded" => c.kind = "import")

(* A config.json that was cut off stays unreadable, however many saves the *)
(* pages make: every endpoint reads it before it writes, and only an       *)
(* import replaces it.                                                     *)
SpoiltUntilImported ==
    [][Spoilt => \/ Spoilt'
                 \/ \E c \in calls : c.kind = "import" /\ c.stage = "loaded"]_vars

(* Every call is answered in the end and every page comes to rest, even    *)
(* over an unreadable file.                                                *)
CallsEnd == []<>(calls = {})

(* What app.jsx says of maintenance mode: "Also sync to automation config  *)
(* so automated migrations respect maintenance mode".                      *)
MaintenanceReachesAutomation ==
    calls = {} /\ file # Torn => file["maintenance"] = maintenanceNodes
=============================================================================
