---------------------------- MODULE SettingsPage ----------------------------
(***************************************************************************)
(* The settings page (app.jsx): a form that one button saves as a whole,   *)
(* and beside it controls with endpoints of their own, whose answers make  *)
(* the page read the configuration again and fill the form from it.        *)
(***************************************************************************)
EXTENDS AutomationPage

CONSTANTS
    Tokens,         \* API tokens; "" is none
    Providers,      \* settings of the AI provider
    Hosts,          \* Proxmox hosts
    Penalties,      \* settings of the penalty scoring
    InvalidPenalties,   \* those the endpoint refuses: weights that do not sum to 1, null
    Imports         \* configuration files one can import

VARIABLES
    config,             \* the page's copy of the configuration, no fields until read
    form,               \* the fields of the form
    penaltyConfig,      \* the penalty form, null until read
    confirmHostChange,  \* null, or the host whose change awaits a second click
    reloadDue,          \* an import has succeeded, the page will be loaded again
    typed               \* history: fields that show what the user made of them, and
                        \* not what the page was last answered

settingsVars == <<config, form, penaltyConfig, confirmHostChange, reloadDue, typed>>

FormFields == {"collection_interval", "ui_interval", "token", "provider", "model"}
RootFields == {"root_balancing", "root_guest_count"}
SettingsFields == FormFields \cup {"collection", "host"} \cup RootFields

EmptyForm == [collection_interval |-> 1, ui_interval |-> 1, token |-> "",
              provider |-> "none", model |-> 1]

Saving(kind) == \E c \in calls : c.kind = kind /\ c.heard   \* disables the button

\* A control of the settings page that makes a call; the user wants `wish`.
Request(c, wish) ==
    /\ Save(c, wish)
    /\ UNCHANGED <<automationConfig, maintenanceNodes, confirming,
                   editingPreset, part>>

-----------------------------------------------------------------------------
(* The form.                                                               *)

\* fetchConfig() fills the form too, over whatever was typed there.
HearConfig(c) ==
    /\ c.kind = "getConfig"
    /\ Hear(c, {})
    /\ IF c.ok
       THEN /\ config' = [f \in SettingsFields |-> Result(c)[f]]
            /\ form' = [f \in FormFields |-> Result(c)[f]]
            /\ typed' = typed \ (FormFields \cup RootFields)
       ELSE UNCHANGED <<config, form, typed>>
    /\ UNCHANGED <<penaltyConfig, confirmHostChange, reloadDue, automationVars>>

Fill(f, v) ==
    /\ f \in part
    /\ form' = [form EXCEPT ![f] = v]
    /\ typed' = typed \cup {f}
    /\ UNCHANGED <<config, penaltyConfig, confirmHostChange, reloadDue,
                   automationVars, fileVars>>

EditProvider == \E p \in Providers : Fill("provider", p)
EditModel == form.provider # "none" /\ \E n \in Numbers : Fill("model", n)
EditToken == \E t \in Tokens : Fill("token", t)

\* Save Settings sends every field of the form, touched or not; what the user
\* wants changed are those that differ from what the page has read.
SaveSettings ==
    /\ ~Saving("settings")
    /\ part \cap FormFields # {}
    /\ Request(Call("settings", form, TRUE),
               [f \in {g \in FormFields : config # <<>> /\ form[g] # config[g]} |-> form[f]])
    /\ UNCHANGED <<confirmed, settingsVars>>

HearSettings(c) ==
    /\ c.kind = "settings"
    /\ Hear(c, {})
    /\ IF c.ok
       THEN /\ config' = [f \in SettingsFields |-> Result(c)[f]]
            /\ typed' = {f \in typed \ RootFields : f \in FormFields => form[f] # Result(c)[f]}
       ELSE UNCHANGED <<config, typed>>
    /\ UNCHANGED <<form, penaltyConfig, confirmHostChange, reloadDue, automationVars>>

-----------------------------------------------------------------------------
(* Collection settings: the inputs are read from the document when applied. *)

ApplyCollection ==
    /\ "collection" \in part
    /\ ~Saving("collection")
    /\ \E interval \in NumberOrNull, workers \in Numbers :
         LET update == [f \in {"collection"} \cup
                           (IF interval = Null THEN {} ELSE {"collection_interval"}) |->
                              IF f = "collection" THEN workers ELSE interval]
         IN  \E valid \in BOOLEAN : Request(Call("collection", update, valid), update)
    /\ UNCHANGED <<confirmed, settingsVars>>

\* HearCollection, did the page not read again.
HearCollection_NoFetch(c) ==
    /\ c.kind = "collection"
    /\ Hear(c, {})
    /\ UNCHANGED <<settingsVars, automationVars>>

\* The answer to what has an endpoint of its own: the page reads again.
HearCollection(c) ==
    /\ c.kind = "collection"
    /\ Hear(c, IF c.ok THEN {Get("getConfig")} ELSE {})
    /\ UNCHANGED <<settingsVars, automationVars>>

-----------------------------------------------------------------------------
(* Penalty scoring.                                                        *)

HearPenalty(c) ==
    /\ c.kind \in {"penalty", "getPenalty"}
    /\ Hear(c, {})
    /\ IF c.ok
       THEN /\ penaltyConfig' = Result(c)["penalty"]
            /\ typed' = typed \ {"penalty"}
       ELSE UNCHANGED <<penaltyConfig, typed>>
    /\ UNCHANGED <<config, form, confirmHostChange, reloadDue, automationVars>>

EditPenalty ==
    /\ "penalty" \in part
    /\ penaltyConfig # Null
    /\ penaltyConfig' \in Penalties \ {penaltyConfig}
    /\ typed' = typed \cup {"penalty"}
    /\ UNCHANGED <<config, form, confirmHostChange, reloadDue, automationVars, fileVars>>

SavePenalty(p) ==
    /\ "penalty" \in part
    /\ penaltyConfig # Null
    /\ ~Saving("penalty")
    /\ Request(Call("penalty", Change("penalty", p), p \notin InvalidPenalties),
               Change("penalty", p))
    /\ UNCHANGED <<confirmed, settingsVars>>

SavePenaltyConfig == SavePenalty(penaltyConfig)
ResetPenaltyConfig == SavePenalty(DefaultPenalty)

-----------------------------------------------------------------------------
(* Two clicks change the host, if Proxmox answers there.                   *)

ChangeHost ==
    /\ "host" \in part
    /\ \E h \in Hosts :
         IF confirmHostChange = h
         THEN /\ \E answers \in BOOLEAN :
                   Request(Call("host", Change("host", h), answers), Change("host", h))
              /\ confirmHostChange' = Null
              /\ UNCHANGED confirmed
         ELSE /\ confirmHostChange' = h
              /\ UNCHANGED <<automationVars, fileVars>>
    /\ UNCHANGED <<config, form, penaltyConfig, reloadDue, typed>>

HearHost(c) ==
    /\ c.kind = "host"
    /\ Hear(c, IF c.ok THEN {Get("getConfig")} ELSE {})
    /\ UNCHANGED <<settingsVars, automationVars>>

-----------------------------------------------------------------------------
(* An import replaces the file, after confirm(); the page is loaded again  *)
(* two seconds after the answer.  Its user is warned where a refused token *)
(* is not imported, and so wants the rest of the file only.                *)

Import ==
    /\ "import" \in part
    /\ \E new \in Imports, valid \in BOOLEAN, keeps \in BOOLEAN :
         Request([Call("import", new, valid) EXCEPT !.keeps = keeps],
                 Imported(new, keeps, wanted))
    /\ confirmed' = confirmed \cup {"enabled", "dry_run", "restarts"}
    /\ UNCHANGED settingsVars

HearImport(c) ==
    /\ c.kind = "import"
    /\ Hear(c, {})
    /\ reloadDue' = (reloadDue \/ c.ok)
    /\ UNCHANGED <<config, form, penaltyConfig, confirmHostChange, typed, automationVars>>

-----------------------------------------------------------------------------
(* Distribution balancing, on the automation page, shows the file's root   *)
(* section in `config` and saves it in the automation's section.           *)
DistributionBalancing ==
    /\ "balancing" \in part
    /\ config # <<>>
    /\ \/ config' = [config EXCEPT !.root_balancing = ~@]
       \/ /\ config.root_balancing
          /\ \E n \in NumberOrNull : config' = [config EXCEPT !.root_guest_count = n]
    /\ typed' = typed \cup {f \in RootFields : config'[f] # config[f]}
    /\ LET change == [balancing |-> config'.root_balancing,
                      guest_count |-> config'.root_guest_count]
       IN  SaveAutomationConfig({}, change)
    /\ UNCHANGED <<form, penaltyConfig, confirmHostChange, reloadDue>>
    /\ UNCHANGED <<automationConfig, maintenanceNodes, confirming,
                   editingPreset, confirmed, part>>
=============================================================================
