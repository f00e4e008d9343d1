------------------------- MODULE ConfigPages_proofs -------------------------
(***************************************************************************)
(* Theorems about the configuration pages, for every number of workers,    *)
(* saves and crashes, and for all values that the controls can have.       *)
(***************************************************************************)
EXTENDS ConfigPages, FiniteSetTheorems, TLAPS

Risks == {"enabled", "dry_run", "restarts"}

\* What has been confirmed is `yes`: f may act for real.
Given(f, yes) == f \in yes \/ Risky(f, InitialFile)

\* A configuration, or a part of one, in which only what was confirmed is risky.
Confirmed(u, yes) == \A f \in Risks \cap DOMAIN u : Risky(f, u) => Given(f, yes)

\* A file, if it can be read, has all fields.
Known(x, yes) == x # Torn => DOMAIN x = Fields /\ Confirmed(x, yes)

FieldsOfCalls ==
    {"no", "kind", "update", "valid", "keeps", "seen", "stage", "alone", "ok", "heard"}

IsCall(c) == DOMAIN c = FieldsOfCalls

\* A call sends, and has read, only what was confirmed; it has read a file before it
\* writes one, and before it succeeds, unless it imports one.  A read of the penalties
\* may have found the defaults only.
CallOK(c, yes) ==
    /\ IsCall(c)
    /\ c.stage \in {"sent", "loaded", "truncated", "answered"}
    /\ DOMAIN c.update \subseteq Fields
    /\ c.kind = "import" => DOMAIN c.update = Fields
    /\ Confirmed(c.update, yes)
    /\ Known(c.seen, yes) \/ (c.kind = "getPenalty" /\ c.stage \in {"sent", "answered"})
    /\ c.stage \in {"loaded", "truncated"} \/ (c.ok /\ c.kind # "getPenalty") =>
         c.seen # Torn \/ c.kind = "import"

\* The page's copy, of which only the rules are ever sent with another change.
PageOK(u, yes) ==
    /\ DOMAIN u \subseteq AutomationFields
    /\ "restarts" \in DOMAIN u /\ Risky("restarts", u) => Given("restarts", yes)

IsFile(x) == x = [f \in Fields |-> x[f]]

WindowFormOK(w) == w # Null => "type" \in DOMAIN w /\ w.type \in Lists

\* The inductive invariant.
IInv ==
    /\ Known(file, confirmed)
    /\ wanted # Torn => DOMAIN wanted = Fields
    /\ \A c \in calls : CallOK(c, confirmed)
    /\ PageOK(automationConfig, confirmed)
    /\ maintenanceNodes \subseteq Nodes
    /\ DOMAIN form = FormFields
    /\ WindowFormOK(newWindowData)

-----------------------------------------------------------------------------
(* Lemmas.                                                                 *)

\* A record of one field.
LEMMA OneField ==
  \A f, v : DOMAIN Change(f, v) = {f} /\ Change(f, v)[f] = v
BY DEF Change

\* Confirmations are never withdrawn.
LEMMA ConfirmedGrows ==
  ASSUME NEW yes, NEW more, yes \subseteq more
  PROVE  /\ \A u : Confirmed(u, yes) => Confirmed(u, more)
         /\ \A x : Known(x, yes) => Known(x, more)
         /\ \A c : CallOK(c, yes) => CallOK(c, more)
         /\ \A u : PageOK(u, yes) => PageOK(u, more)
<1>1. \A f : Given(f, yes) => Given(f, more)
  BY DEF Given
<1>2. \A u : Confirmed(u, yes) => Confirmed(u, more)
  BY <1>1 DEF Confirmed
<1>3. \A x : Known(x, yes) => Known(x, more)
  BY <1>2 DEF Known
<1>4. \A c : CallOK(c, yes) => CallOK(c, more)
  BY <1>2, <1>3 DEF CallOK
<1>5. \A u : PageOK(u, yes) => PageOK(u, more)
  BY <1>1 DEF PageOK
<1> QED
  BY <1>2, <1>3, <1>4, <1>5

\* Nothing that is without the three switches is risky.
LEMMA HarmlessIsConfirmed ==
  ASSUME NEW u, NEW yes, Risks \cap DOMAIN u = {}
  PROVE  Confirmed(u, yes)
BY DEF Confirmed

\* What is merged of confirmed parts is confirmed.
LEMMA MergeIsConfirmed ==
  ASSUME NEW u, NEW old, NEW yes, Confirmed(u, yes), Confirmed(old, yes)
  PROVE  DOMAIN Merge(u, old) = DOMAIN old /\ Confirmed(Merge(u, old), yes)
<1>1. DOMAIN Merge(u, old) = DOMAIN old
  BY DEF Merge
<1>2. ASSUME NEW f \in Risks \cap DOMAIN old, Risky(f, Merge(u, old)) PROVE Given(f, yes)
  <2>1. CASE f \in DOMAIN u
    <3>1. Merge(u, old)[f] = u[f]
      BY <2>1 DEF Merge
    <3>2. Risky(f, u)
      BY <1>2, <3>1 DEF Risky
    <3> QED
      BY <2>1, <3>2 DEF Confirmed
  <2>2. CASE f \notin DOMAIN u
    <3>1. Merge(u, old)[f] = old[f]
      BY <2>2 DEF Merge
    <3>2. Risky(f, old)
      BY <1>2, <3>1 DEF Risky
    <3> QED
      BY <3>2 DEF Confirmed
  <2> QED
    BY <2>1, <2>2
<1> QED
  BY <1>1, <1>2 DEF Confirmed

\* A file that is imported is changed in its token only.
LEMMA ImportedFacts ==
  ASSUME NEW new, NEW keeps, NEW old
  PROVE  /\ DOMAIN Imported(new, keeps, old) = DOMAIN new
         /\ \A f \in DOMAIN new \ {"token"} : Imported(new, keeps, old)[f] = new[f]
         /\ IsFile(new) => IsFile(Imported(new, keeps, old))
         /\ \A yes : Confirmed(new, yes) => Confirmed(Imported(new, keeps, old), yes)
<1>1. DOMAIN Imported(new, keeps, old) = DOMAIN new
  BY DEF Imported
<1>2. \A f \in DOMAIN new \ {"token"} : Imported(new, keeps, old)[f] = new[f]
  BY DEF Imported
<1>3. ASSUME IsFile(new) PROVE IsFile(Imported(new, keeps, old))
  <2>1. CASE Imported(new, keeps, old) = new
    BY <1>3, <2>1
  <2>2. CASE Imported(new, keeps, old) = [new EXCEPT !["token"] = old["token"]]
    BY <1>3, <2>2 DEF IsFile
  <2> QED
    BY <2>1, <2>2 DEF Imported
<1>4. \A yes : Confirmed(new, yes) => Confirmed(Imported(new, keeps, old), yes)
  BY <1>1, <1>2 DEF Confirmed, Risks, Risky
<1> QED
  BY <1>1, <1>2, <1>3, <1>4

\* So what a call writes, or answers with, is a whole file and confirmed.
LEMMA ResultIsKnown ==
  ASSUME NEW c, NEW yes, CallOK(c, yes),
         c.stage \in {"loaded", "truncated"} \/ (c.ok /\ c.kind # "getPenalty")
  PROVE  DOMAIN Result(c) = Fields /\ Confirmed(Result(c), yes)
<1>1. CASE c.kind = "import"
  BY <1>1, ImportedFacts DEF Result, CallOK
<1>2. CASE c.kind # "import"
  <2>1. DOMAIN c.seen = Fields /\ Confirmed(c.seen, yes) /\ Confirmed(c.update, yes)
    BY <1>2 DEF CallOK, Known
  <2>2. DOMAIN Merge(c.update, c.seen) = Fields /\ Confirmed(Merge(c.update, c.seen), yes)
    BY <2>1, MergeIsConfirmed
  <2> QED
    BY <1>2, <2>2 DEF Result
<1> QED
  BY <1>1, <1>2

\* A new call.
LEMMA NewCallIsOK ==
  ASSUME NEW kind, NEW update, NEW valid, NEW yes,
         DOMAIN update \subseteq Fields, kind = "import" => DOMAIN update = Fields,
         Confirmed(update, yes)
  PROVE  CallOK(Call(kind, update, valid), yes)
<1> DEFINE c == Call(kind, update, valid)
<1>1. /\ c.kind = kind /\ c.update = update /\ c.seen = Torn /\ c.stage = "sent" /\ c.ok = FALSE
  BY DEF Call
<1>2. IsCall(c)
  BY DEF Call, IsCall, FieldsOfCalls
<1>3. Known(Torn, yes)
  BY DEF Known
<1> SUFFICES CallOK(c, yes)
  OBVIOUS
<1> HIDE DEF c
<1> QED
  BY <1>1, <1>2, <1>3 DEF CallOK

\* A new import.
ImportCall(new, valid, keeps) == [Call("import", new, valid) EXCEPT !.keeps = keeps]

LEMMA NewImportIsOK ==
  ASSUME NEW new, NEW valid, NEW keeps, NEW c, c = ImportCall(new, valid, keeps)
  PROVE  /\ c.stage = "sent" /\ c.heard /\ c.alone /\ ~c.ok /\ c.kind = "import"
         /\ c.update = new /\ c.keeps = keeps
         /\ \A yes : DOMAIN new = Fields /\ Confirmed(new, yes) => CallOK(c, yes)
<1>1. /\ c.stage = "sent" /\ c.heard /\ c.alone /\ ~c.ok /\ c.kind = "import"
      /\ c.update = new /\ c.keeps = keeps /\ c.seen = Torn /\ IsCall(c)
  BY DEF ImportCall, Call, IsCall, FieldsOfCalls
<1>2. \A yes : Known(Torn, yes)
  BY DEF Known
<1>3. \A yes : DOMAIN new = Fields /\ Confirmed(new, yes) => CallOK(c, yes)
  BY <1>1, <1>2 DEF CallOK
<1> QED
  BY <1>1, <1>3

LEMMA GetIsOK ==
  ASSUME NEW kind \in Gets, NEW yes
  PROVE  CallOK(Get(kind), yes)
<1>1. DOMAIN <<>> = {}
  OBVIOUS
<1>2. kind # "import"
  BY DEF Gets
<1> QED
  BY <1>1, <1>2, HarmlessIsConfirmed, NewCallIsOK DEF Get

-----------------------------------------------------------------------------
(* What the pages do to the invariant.                                     *)

\* The sections that a control of the automation page sends along.
Sections == {{}, Rules, Safety, Schedule}

\* Without a call and an answer.
LEMMA RestKeepsIInv ==
  ASSUME IInv, UNCHANGED <<fileVars, automationConfig, confirmed>>,
         maintenanceNodes' \subseteq Nodes, DOMAIN form' = FormFields, WindowFormOK(newWindowData')
  PROVE  IInv'
BY DEF IInv, fileVars

\* A save, possibly with a confirmation.
LEMMA SaveKeepsIInv ==
  ASSUME IInv, NEW c, NEW wish, Save(c, wish),
         confirmed \subseteq confirmed', CallOK(c, confirmed'), UNCHANGED automationConfig,
         maintenanceNodes' \subseteq Nodes, DOMAIN form' = FormFields, WindowFormOK(newWindowData')
  PROVE  IInv'
<1>1. Known(file', confirmed') /\ PageOK(automationConfig', confirmed')
  BY ConfirmedGrows DEF IInv, Save
<1>2. wanted' # Torn => DOMAIN wanted' = Fields
  BY DEF IInv, Save, Merge
<1>3. \A d \in calls' : CallOK(d, confirmed')
  BY ConfirmedGrows DEF IInv, Save
<1> QED
  BY <1>1, <1>2, <1>3 DEF IInv

\* A save of the automation page with the rest of its section.
LEMMA SaveAsKeepsIInv ==
  ASSUME IInv, NEW section \in Sections, NEW change, NEW wish, SaveAs(section, change, wish),
         confirmed \subseteq confirmed', DOMAIN change \subseteq Fields,
         Confirmed(change, confirmed'), UNCHANGED automationConfig,
         maintenanceNodes' \subseteq Nodes, DOMAIN form' = FormFields, WindowFormOK(newWindowData')
  PROVE  IInv'
<1> DEFINE sent == [f \in DOMAIN change \cup (section \cap DOMAIN automationConfig) |->
                      IF f \in DOMAIN change THEN change[f] ELSE automationConfig[f]]
<1>1. DOMAIN sent \subseteq Fields
  BY DEF IInv, PageOK, Fields
<1>2. section \cap Risks \subseteq {"restarts"}
  BY DEF Sections, Rules, Safety, Schedule, Risks
<1>3. ASSUME NEW f \in Risks \cap DOMAIN sent, Risky(f, sent) PROVE Given(f, confirmed')
  <2>1. CASE f \in DOMAIN change
    <3>1. sent[f] = change[f]
      BY <2>1
    <3>2. Risky(f, change)
      BY <1>3, <3>1 DEF Risky
    <3> QED
      BY <2>1, <3>2 DEF Confirmed
  <2>2. CASE f \notin DOMAIN change
    <3>1. sent[f] = automationConfig[f] /\ f \in DOMAIN automationConfig /\ f = "restarts"
      BY <1>2, <2>2
    <3>2. Risky(f, automationConfig)
      BY <1>3, <3>1 DEF Risky
    <3> QED
      BY <3>1, <3>2 DEF IInv, PageOK, Given
  <2> QED
    BY <2>1, <2>2
<1>4. Confirmed(sent, confirmed')
  BY <1>3 DEF Confirmed
<1>5. Save(Call("automation", sent, TRUE), wish)
  BY DEF SaveAs
<1> HIDE DEF sent
<1>6. CallOK(Call("automation", sent, TRUE), confirmed')
  <2>1. "automation" # "import"
    OBVIOUS
  <2> QED
    BY <1>1, <1>4, <2>1, NewCallIsOK
<1> QED
  BY <1>5, <1>6, SaveKeepsIInv

\* A control that changes one field which is not one of the three, or makes it safe.
LEMMA EditKeepsIInv ==
  ASSUME IInv, NEW control, NEW section \in Sections, NEW f \in Fields, NEW v,
         Edit(control, section, Change(f, v)), UNCHANGED <<windowVars, settingsVars>>,
         Confirmed(Change(f, v), confirmed)
  PROVE  IInv'
<1>1. UNCHANGED <<confirmed, automationConfig, maintenanceNodes, form, newWindowData>>
  BY DEF Edit, windowVars, settingsVars
<1>2. DOMAIN Change(f, v) \subseteq Fields /\ Confirmed(Change(f, v), confirmed')
  <2>1. DOMAIN Change(f, v) = {f}
    BY OneField
  <2> QED
    BY <1>1, <2>1
<1>3. SaveAs(section, Change(f, v), Change(f, v))
  BY DEF Edit, SaveAutomationConfig
<1> QED
  BY <1>1, <1>2, <1>3, SaveAsKeepsIInv DEF IInv

LEMMA HarmlessEditKeepsIInv ==
  ASSUME IInv, NEW control, NEW section \in Sections, NEW f \in Fields \ Risks, NEW v,
         Edit(control, section, Change(f, v)), UNCHANGED <<windowVars, settingsVars>>
  PROVE  IInv'
<1>1. DOMAIN Change(f, v) = {f}
  BY OneField
<1>2. Confirmed(Change(f, v), confirmed)
  BY <1>1, HarmlessIsConfirmed
<1> QED
  BY <1>2, EditKeepsIInv

\* The switches that ask: what they save is confirmed in the same step, or safe.
LEMMA GuardedSwitchKeepsIInv ==
  ASSUME IInv, NEW f \in Risks, NEW section \in Sections, UNCHANGED <<windowVars, settingsVars>>,
         GuardedSwitch(f, section, f # "dry_run")
  PROVE  IInv'
<1> DEFINE risky == f # "dry_run"
<1>1. f \in Fields
  BY DEF Risks, Fields, AutomationFields, Rules
<1>2. UNCHANGED <<form, newWindowData>>
  BY DEF windowVars, settingsVars
<1>3. CASE Ask(f)
  BY <1>2, <1>3, RestKeepsIInv DEF Ask, IInv
<1>4. CASE /\ SaveAutomationConfig(section, Change(f, risky))
           /\ confirmed' = confirmed \cup {f}
           /\ UNCHANGED <<automationConfig, maintenanceNodes, editingPreset, part>>
  <2>1. Confirmed(Change(f, risky), confirmed')
    BY <1>4, OneField DEF Confirmed, Given
  <2>2. DOMAIN Change(f, risky) \subseteq Fields
    <3>1. DOMAIN Change(f, risky) = {f}
      BY OneField
    <3> QED
      BY <1>1, <3>1
  <2>3. SaveAs(section, Change(f, risky), Change(f, risky))
    BY <1>4 DEF SaveAutomationConfig
  <2> QED
    BY <1>2, <1>4, <2>1, <2>2, <2>3, SaveAsKeepsIInv DEF IInv
<1>5. CASE /\ UNCHANGED <<confirmed, fileVars>>
           /\ UNCHANGED <<automationConfig, maintenanceNodes, editingPreset, part>>
  BY <1>2, <1>5, RestKeepsIInv DEF IInv
<1>6. CASE Edit(f, section, Change(f, ~risky))
  <2>1. Change(f, ~risky)[f] = ~risky
    BY OneField
  <2>2. ~Risky(f, Change(f, ~risky))
    BY <2>1 DEF Risky
  <2>3. Confirmed(Change(f, ~risky), confirmed)
    BY <2>2, OneField DEF Confirmed
  <2> QED
    BY <1>1, <1>6, <2>3, EditKeepsIInv
<1> QED
  BY <1>3, <1>4, <1>5, <1>6 DEF GuardedSwitch

\* The names of fields, sections and controls.
LEMMA FieldNames ==
  /\ {} \in Sections /\ Rules \in Sections /\ Safety \in Sections /\ Schedule \in Sections
  /\ {"interval", "limit", "max_cpu", "ignore_tags", "pause", "rollback", "rollback_hours",
      "timezone", "presets", "maintenance", "balancing", "guest_count", "penalty", "host",
      "collection"} \subseteq Fields \ Risks
  /\ Lists \subseteq Fields \ Risks
  /\ FormFields \subseteq Fields \ Risks
BY DEF Sections, Fields, AutomationFields, SettingsFields, FormFields, Rules, Safety, Schedule,
       Balance, Risks, Lists

\* Every control of the automation page.
LEMMA AutomationKeepsIInv ==
  ASSUME IInv, UserOfAutomation, UNCHANGED <<windowVars, settingsVars>>
  PROVE  IInv'
<1> USE FieldNames
<1>0. UNCHANGED <<form, newWindowData>> /\ DOMAIN form = FormFields /\ WindowFormOK(newWindowData)
  BY DEF windowVars, settingsVars, IInv
<1>1. CASE EnableAutomation
  <2>1. "enabled" \in Risks /\ ("enabled" # "dry_run") = TRUE
    BY DEF Risks
  <2>2. GuardedSwitch("enabled", {}, "enabled" # "dry_run")
    BY <1>1, <2>1 DEF EnableAutomation
  <2> QED
    BY <2>1, <2>2, GuardedSwitchKeepsIInv
<1>2. CASE DryRun
  <2>1. "dry_run" \in Risks /\ ("dry_run" # "dry_run") = FALSE
    BY DEF Risks
  <2>2. GuardedSwitch("dry_run", {}, "dry_run" # "dry_run")
    BY <1>2, <2>1 DEF DryRun
  <2> QED
    BY <2>1, <2>2, GuardedSwitchKeepsIInv
<1>3. CASE AllowContainerRestarts
  <2>1. "restarts" \in Risks /\ ("restarts" # "dry_run") = TRUE
    BY DEF Risks
  <2>2. GuardedSwitch("restarts", Rules, "restarts" # "dry_run")
    BY <1>3, <2>1 DEF AllowContainerRestarts
  <2> QED
    BY <2>1, <2>2, GuardedSwitchKeepsIInv
<1>4. CASE CheckInterval
  BY <1>4, HarmlessEditKeepsIInv DEF CheckInterval
<1>5. CASE RuleNumbers
  BY <1>5, HarmlessEditKeepsIInv DEF RuleNumbers
<1>6. CASE SafetyNumbers
  BY <1>6, HarmlessEditKeepsIInv DEF SafetyNumbers
<1>7. CASE RuleSwitches
  BY <1>7, HarmlessEditKeepsIInv DEF RuleSwitches
<1>8. CASE SafetySwitches
  BY <1>8, HarmlessEditKeepsIInv DEF SafetySwitches
<1>9. CASE RollbackDetection
  BY <1>9, HarmlessEditKeepsIInv DEF RollbackDetection
<1>10. CASE Timezone
  BY <1>10, HarmlessEditKeepsIInv DEF Timezone
<1>11. CASE EditPresets
  BY <1>0, <1>11, RestKeepsIInv DEF EditPresets, IInv
<1>12. CASE EditPresetValue
  BY <1>12, HarmlessEditKeepsIInv DEF EditPresetValue
<1>13. ASSUME NEW p \in Presets, ApplyPreset(p) PROVE IInv'
  <2>1. CASE p \in confirming
    <3> DEFINE change == [f \in {"interval", "limit"} |-> Shown("presets")[p]]
    <3>1. SaveAs(Rules, change, change)
      BY <1>13, <2>1 DEF ApplyPreset, SaveAutomationConfig
    <3>2. UNCHANGED <<automationConfig, maintenanceNodes, confirmed>>
      BY <1>13, <2>1 DEF ApplyPreset
    <3>3. DOMAIN change = {"interval", "limit"}
      OBVIOUS
    <3> HIDE DEF change
    <3>4. Confirmed(change, confirmed')
      BY <3>3, HarmlessIsConfirmed
    <3> QED
      BY <1>0, <3>1, <3>2, <3>3, <3>4, SaveAsKeepsIInv DEF IInv
  <2>2. CASE p \notin confirming
    BY <1>0, <1>13, <2>2, RestKeepsIInv DEF ApplyPreset, IInv
  <2> QED
    BY <2>1, <2>2
<1>14. ASSUME NEW n \in Nodes, ToggleMaintenance(n) PROVE IInv'
  <2> DEFINE change == Change("maintenance", maintenanceNodes')
  <2>1. maintenanceNodes' \subseteq Nodes /\ UNCHANGED <<automationConfig, confirmed>>
    BY <1>14 DEF ToggleMaintenance, IInv
  <2>2. CASE maintenanceNodes' # Shown("maintenance")
    <3>1. SaveAs({}, change, change)
      BY <1>14, <2>2 DEF ToggleMaintenance, SaveAutomationConfig
    <3>2. DOMAIN change = {"maintenance"}
      BY OneField
    <3> HIDE DEF change
    <3>3. Confirmed(change, confirmed')
      BY <3>2, HarmlessIsConfirmed
    <3> QED
      BY <1>0, <2>1, <3>1, <3>2, <3>3, SaveAsKeepsIInv DEF IInv
  <2>3. CASE maintenanceNodes' = Shown("maintenance")
    BY <1>0, <1>14, <2>1, <2>3, RestKeepsIInv DEF ToggleMaintenance
  <2> QED
    BY <2>2, <2>3
<1> QED
  BY <1>1, <1>2, <1>3, <1>4, <1>5, <1>6, <1>7, <1>8, <1>9, <1>10, <1>11, <1>12, <1>13, <1>14
     DEF UserOfAutomation

\* Every control of the windows: what they save are the two lists.
LEMMA SaveWindowsKeepsIInv ==
  ASSUME IInv, NEW change, NEW wish, SaveWindows(change, wish), DOMAIN change \subseteq Lists,
         UNCHANGED settingsVars, WindowFormOK(newWindowData')
  PROVE  IInv'
<1> USE FieldNames
<1>1. SaveAs(Schedule, change, wish) /\ UNCHANGED <<automationConfig, maintenanceNodes, confirmed>>
  BY DEF SaveWindows
<1>2. DOMAIN form' = FormFields
  BY DEF settingsVars, IInv
<1>3. DOMAIN change \subseteq Fields /\ Risks \cap DOMAIN change = {}
  OBVIOUS
<1>4. Confirmed(change, confirmed')
  BY <1>3, HarmlessIsConfirmed
<1> QED
  BY <1>1, <1>2, <1>3, <1>4, SaveAsKeepsIInv DEF IInv

LEMMA RowsAreInLists ==
  /\ \A row \in Range(AllWindows) : row[1] \in Lists
  /\ \A row \in Edited : row[1] \in Lists
<1>1. \A i \in DOMAIN AllWindows : AllWindows[i][1] \in Lists
  BY DEF AllWindows, Lists
<1> QED
  BY <1>1 DEF Range, Edited

LEMMA ChangeWindowKeepsIInv ==
  ASSUME IInv, NEW row \in Edited, NEW field, NEW value, ChangeWindow(row, field, value),
         UNCHANGED settingsVars
  PROVE  IInv'
<1> DEFINE w == WindowIn(row)
           change == Change(row[1], [Shown(row[1]) EXCEPT ![row[2]] = [w EXCEPT ![field] = value]])
<1>1. PICK wish : SaveWindows(change, wish)
  BY DEF ChangeWindow
<1>2. DOMAIN change \subseteq Lists
  <2>1. DOMAIN change = {row[1]}
    BY OneField
  <2> QED
    BY <2>1, RowsAreInLists
<1>3. WindowFormOK(newWindowData')
  BY DEF ChangeWindow, windowVars, IInv
<1> HIDE DEF change
<1> QED
  BY <1>1, <1>2, <1>3, SaveWindowsKeepsIInv

LEMMA FormKeepsIInv ==
  ASSUME IInv, NEW new, Form(new), WindowFormOK(new), UNCHANGED settingsVars
  PROVE  IInv'
BY RestKeepsIInv DEF Form, automationVars, settingsVars, IInv

LEMMA WindowsKeepIInv ==
  ASSUME IInv, WindowActions, UNCHANGED settingsVars
  PROVE  IInv'
<1> USE FieldNames
<1>0. UNCHANGED form /\ DOMAIN form = FormFields /\ WindowFormOK(newWindowData)
  BY DEF settingsVars, IInv
<1>1. CASE OpenFromTimeline \/ OpenEditor
  BY <1>0, <1>1, RestKeepsIInv DEF OpenFromTimeline, OpenEditor, automationVars, IInv
<1>2. CASE ToggleType
  <2>1. PICK row \in Edited :
          /\ SaveWindows(
               [l \in Lists |-> IF l = row[1] THEN RemoveAt(Shown(l), row[2])
                                ELSE Append(Shown(l), WindowIn(row))],
               [l \in Lists |-> IF l = row[1] THEN Without(WindowIn(row).id, l)
                                ELSE Append(Without(WindowIn(row).id, l), WindowIn(row))])
          /\ UNCHANGED newWindowData
    BY <1>2 DEF ToggleType
  <2> QED
    BY <1>0, <2>1, SaveWindowsKeepsIInv
<1>3. CASE RenameWindow \/ ChangeDays \/ ChangeTimes
  BY <1>3, ChangeWindowKeepsIInv DEF RenameWindow, ChangeDays, ChangeTimes
<1>4. CASE RemoveWindow
  <2>1. PICK row \in Range(AllWindows) \ Edited :
          IF confirmRemoveWindow = row
          THEN SaveWindows(Change(row[1], RemoveAt(Shown(row[1]), row[2])),
                           [l \in Lists |-> Without(WindowIn(row).id, l)])
          ELSE UNCHANGED <<automationVars, fileVars>>
    BY <1>4 DEF RemoveWindow
  <2>2. UNCHANGED newWindowData
    BY <1>4 DEF RemoveWindow
  <2>3. CASE confirmRemoveWindow = row
    <3> DEFINE change == Change(row[1], RemoveAt(Shown(row[1]), row[2]))
    <3>1. DOMAIN change = {row[1]}
      BY OneField
    <3>2. DOMAIN change \subseteq Lists
      BY <3>1, RowsAreInLists
    <3> HIDE DEF change
    <3> QED
      BY <1>0, <2>1, <2>2, <2>3, <3>2, SaveWindowsKeepsIInv DEF change
  <2>4. CASE confirmRemoveWindow # row
    BY <1>0, <2>1, <2>2, <2>4, RestKeepsIInv DEF automationVars, IInv
  <2> QED
    BY <2>3, <2>4
<1>5. CASE OpenForm \/ CloseForm
  <2>1. WindowFormOK(EmptyWindow) /\ WindowFormOK(Null)
    BY DEF WindowFormOK, EmptyWindow, Lists
  <2> QED
    BY <1>5, <2>1, FormKeepsIInv DEF OpenForm, CloseForm
<1>6. CASE FillNameAndType \/ FillDays \/ FillTimes
  <2>1. newWindowData # Null
    BY <1>6 DEF FillNameAndType, FillDays, FillTimes
  <2>2. "type" \in DOMAIN newWindowData /\ newWindowData.type \in Lists
    BY <1>0, <2>1 DEF WindowFormOK
  <2>3. /\ \A l \in Lists : WindowFormOK([newWindowData EXCEPT !.type = l])
        /\ \A v : /\ WindowFormOK([newWindowData EXCEPT !.name = v])
                  /\ WindowFormOK([newWindowData EXCEPT !.days = v])
                  /\ WindowFormOK([newWindowData EXCEPT !.times = v])
    BY <2>2 DEF WindowFormOK
  <2> QED
    BY <1>6, <2>3, FormKeepsIInv DEF FillNameAndType, FillDays, FillTimes
<1>7. CASE SaveWindow
  <2> DEFINE l == newWindowData.type
             w == Window(made + 1, newWindowData)
             change == Change(l, Append(Shown(l), w))
  <2>1. SaveWindows(change, Change(l, Append(WantedIn(l), w)))
    BY <1>7 DEF SaveWindow
  <2>2. l \in Lists
    BY <1>0, <1>7 DEF SaveWindow, WindowFormOK
  <2>3. DOMAIN change = {l}
    BY OneField
  <2>4. WindowFormOK(newWindowData')
    BY <1>7 DEF SaveWindow, WindowFormOK
  <2> HIDE DEF change, l
  <2> QED
    BY <2>1, <2>2, <2>3, <2>4, SaveWindowsKeepsIInv
<1> QED
  BY <1>1, <1>2, <1>3, <1>4, <1>5, <1>6, <1>7 DEF WindowActions

\* Every control of the settings page: what they save has none of the three switches,
\* but for an import, which is confirmed.
LEMMA HarmlessRequestKeepsIInv ==
  ASSUME IInv, NEW kind, kind # "import", NEW update, NEW valid, NEW wish,
         Request(Call(kind, update, valid), wish), UNCHANGED <<form, newWindowData, confirmed>>,
         DOMAIN update \subseteq Fields \ Risks
  PROVE  IInv'
<1>1. Confirmed(update, confirmed')
  BY HarmlessIsConfirmed
<1>2. CallOK(Call(kind, update, valid), confirmed')
  BY <1>1, NewCallIsOK
<1> QED
  BY <1>2, SaveKeepsIInv DEF Request, IInv

LEMMA SettingsKeepIInv ==
  ASSUME IInv, UserOfSettings, UNCHANGED windowVars
  PROVE  IInv'
<1> USE FieldNames
<1>0. UNCHANGED newWindowData /\ DOMAIN form = FormFields /\ WindowFormOK(newWindowData)
  BY DEF windowVars, IInv
<1>1. CASE EditProvider \/ EditModel \/ EditToken
  <2>1. PICK f, v : Fill(f, v)
    BY <1>1 DEF EditProvider, EditModel, EditToken
  <2>2. DOMAIN form' = FormFields
    BY <1>0, <2>1 DEF Fill
  <2> QED
    BY <1>0, <2>1, <2>2, RestKeepsIInv DEF Fill, automationVars, IInv
<1>2. CASE SaveSettings
  <2>1. PICK wish : Request(Call("settings", form, TRUE), wish)
    BY <1>2 DEF SaveSettings
  <2>2. UNCHANGED <<form, confirmed>>
    BY <1>2 DEF SaveSettings, settingsVars
  <2>3. "settings" # "import" /\ DOMAIN form \subseteq Fields \ Risks
    BY <1>0
  <2> QED
    BY <1>0, <2>1, <2>2, <2>3, HarmlessRequestKeepsIInv
<1>3. CASE ApplyCollection
  <2>1. PICK update :
          /\ DOMAIN update \subseteq {"collection", "collection_interval"}
          /\ \E valid \in BOOLEAN : Request(Call("collection", update, valid), update)
    <3>1. PICK interval \in NumberOrNull, workers \in Numbers :
            LET update == [f \in {"collection"} \cup
                              (IF interval = Null THEN {} ELSE {"collection_interval"}) |->
                                 IF f = "collection" THEN workers ELSE interval]
            IN  \E valid \in BOOLEAN : Request(Call("collection", update, valid), update)
      BY <1>3 DEF ApplyCollection
    <3> DEFINE u == [f \in {"collection"} \cup
                        (IF interval = Null THEN {} ELSE {"collection_interval"}) |->
                           IF f = "collection" THEN workers ELSE interval]
    <3>2. DOMAIN u \subseteq {"collection", "collection_interval"}
      OBVIOUS
    <3>3. \E valid \in BOOLEAN : Request(Call("collection", u, valid), u)
      BY <3>1
    <3> HIDE DEF u
    <3> QED
      BY <3>2, <3>3
  <2>2. UNCHANGED <<form, confirmed>>
    BY <1>3 DEF ApplyCollection, settingsVars
  <2>3. "collection_interval" \in Fields \ Risks
    BY DEF FormFields
  <2>4. "collection" # "import" /\ DOMAIN update \subseteq Fields \ Risks
    BY <2>1, <2>3
  <2> QED
    BY <1>0, <2>4, <2>1, <2>2, <2>3, HarmlessRequestKeepsIInv
<1>4. CASE EditPenalty
  BY <1>0, <1>4, RestKeepsIInv DEF EditPenalty, automationVars, IInv
<1>5. ASSUME NEW p, SavePenalty(p) PROVE IInv'
  <2>1. DOMAIN Change("penalty", p) = {"penalty"}
    BY OneField
  <2>2. UNCHANGED <<form, confirmed>>
    BY <1>5 DEF SavePenalty, settingsVars
  <2>3. Request(Call("penalty", Change("penalty", p), p \notin InvalidPenalties),
                Change("penalty", p))
    BY <1>5 DEF SavePenalty
  <2>4. "penalty" # "import" /\ DOMAIN Change("penalty", p) \subseteq Fields \ Risks
    BY <2>1
  <2> QED
    BY <1>0, <2>4, <2>2, <2>3, HarmlessRequestKeepsIInv
<1>6. CASE ChangeHost
  <2>1. PICK h \in Hosts :
          IF confirmHostChange = h
          THEN /\ \E answers \in BOOLEAN :
                    Request(Call("host", Change("host", h), answers), Change("host", h))
               /\ UNCHANGED confirmed
          ELSE UNCHANGED <<automationVars, fileVars>>
    BY <1>6 DEF ChangeHost
  <2>2. UNCHANGED form
    BY <1>6 DEF ChangeHost
  <2>3. CASE confirmHostChange = h
    <3>1. PICK answers \in BOOLEAN :
            Request(Call("host", Change("host", h), answers), Change("host", h))
      BY <2>1, <2>3
    <3>2. DOMAIN Change("host", h) = {"host"}
      BY OneField
    <3>3. "host" # "import" /\ DOMAIN Change("host", h) \subseteq Fields \ Risks
      BY <3>2
    <3> QED
      BY <1>0, <2>1, <2>2, <2>3, <3>1, <3>3, HarmlessRequestKeepsIInv
  <2>4. CASE confirmHostChange # h
    BY <1>0, <2>1, <2>2, <2>4, RestKeepsIInv DEF automationVars, IInv
  <2> QED
    BY <2>3, <2>4
<1>7. CASE Import
  <2>1. PICK new \in Imports, valid \in BOOLEAN, keeps \in BOOLEAN :
          Request(ImportCall(new, valid, keeps), Imported(new, keeps, wanted))
    BY <1>7 DEF Import, ImportCall
  <2> DEFINE c == ImportCall(new, valid, keeps)
  <2>2. DOMAIN new = Fields
    BY FilesAssumption
  <2>3. confirmed' = confirmed \cup Risks /\ UNCHANGED form
    BY <1>7 DEF Import, Risks, settingsVars
  <2>4. Confirmed(new, confirmed')
    BY <2>3 DEF Confirmed, Given
  <2>5. CallOK(c, confirmed')
    BY <2>2, <2>4, NewImportIsOK
  <2>6. Save(c, Imported(new, keeps, wanted)) /\ UNCHANGED <<automationConfig, maintenanceNodes>>
    BY <2>1 DEF Request
  <2> HIDE DEF c
  <2> QED
    BY <1>0, <2>3, <2>5, <2>6, SaveKeepsIInv DEF IInv
<1> QED
  BY <1>1, <1>2, <1>3, <1>4, <1>5, <1>6, <1>7
     DEF UserOfSettings, SavePenaltyConfig, ResetPenaltyConfig

LEMMA BalancingKeepsIInv ==
  ASSUME IInv, DistributionBalancing, UNCHANGED windowVars
  PROVE  IInv'
<1> USE FieldNames
<1> DEFINE change == [balancing |-> config'.root_balancing,
                      guest_count |-> config'.root_guest_count]
<1>1. SaveAs({}, change, change)
  BY DEF DistributionBalancing, SaveAutomationConfig
<1>2. DOMAIN change = {"balancing", "guest_count"}
  OBVIOUS
<1>3. /\ UNCHANGED <<form, newWindowData, automationConfig, maintenanceNodes, confirmed>>
      /\ DOMAIN form = FormFields /\ WindowFormOK(newWindowData)
  BY DEF DistributionBalancing, windowVars, IInv
<1> HIDE DEF change
<1>4. Confirmed(change, confirmed')
  BY <1>2, HarmlessIsConfirmed
<1> QED
  BY <1>1, <1>2, <1>3, <1>4, SaveAsKeepsIInv DEF IInv

-----------------------------------------------------------------------------
(* Answers, a new page, and the service.                                   *)

\* An answer is heard: a page may copy what a successful call answers with.
LEMMA HearKeepsIInv ==
  ASSUME IInv, NEW c \in calls, NEW gets, Hear(c, gets),
         \A d \in gets : \E kind \in Gets : d = Get(kind),
         UNCHANGED <<maintenanceNodes, confirmed, newWindowData>>,
         PageOK(automationConfig', confirmed), DOMAIN form' = FormFields
  PROVE  IInv'
<1>1. \A d \in calls' : CallOK(d, confirmed)
  BY GetIsOK DEF Hear, IInv
<1> QED
  BY <1>1 DEF Hear, IInv

LEMMA AnswerKeepsIInv ==
  ASSUME IInv, Answer
  PROVE  IInv'
<1>1. PICK c \in calls :
        \/ HearAutomation(c) /\ UNCHANGED <<windowVars, settingsVars>>
        \/ /\ \/ HearConfig(c) \/ HearSettings(c) \/ HearCollection(c)
              \/ HearPenalty(c) \/ HearHost(c) \/ HearImport(c)
           /\ UNCHANGED windowVars
  BY DEF Answer
<1>2. UNCHANGED newWindowData /\ DOMAIN form = FormFields
  BY <1>1 DEF windowVars, IInv
<1>3. PageOK(automationConfig, confirmed)
  BY DEF IInv
<1>4. CASE HearAutomation(c) /\ UNCHANGED settingsVars
  <2>1. PageOK(automationConfig', confirmed)
    <3>1. CASE c.ok
      <4>1. automationConfig' = [f \in AutomationFields |-> Result(c)[f]]
        BY <1>4, <3>1 DEF HearAutomation
      <4>2. DOMAIN Result(c) = Fields /\ Confirmed(Result(c), confirmed)
        BY <1>4, <3>1, ResultIsKnown DEF IInv, HearAutomation
      <4>3. "restarts" \in AutomationFields /\ "restarts" \in Fields /\ "restarts" \in Risks
        BY DEF AutomationFields, Fields, Rules, Risks
      <4>4. Risky("restarts", automationConfig') => Risky("restarts", Result(c))
        BY <4>1, <4>3 DEF Risky
      <4> QED
        BY <4>1, <4>2, <4>3, <4>4 DEF PageOK, Confirmed
    <3>2. CASE ~c.ok
      BY <1>3, <1>4, <3>2 DEF HearAutomation
    <3> QED
      BY <3>1, <3>2
  <2>2. Hear(c, {})
    BY <1>4 DEF HearAutomation
  <2> QED
    BY <1>2, <1>4, <2>1, <2>2, HearKeepsIInv DEF HearAutomation, settingsVars
<1>5. CASE HearConfig(c)
  <2>1. DOMAIN form' = FormFields /\ Hear(c, {})
    BY <1>2, <1>5 DEF HearConfig
  <2> QED
    BY <1>2, <1>3, <1>5, <2>1, HearKeepsIInv DEF HearConfig, automationVars
<1>6. CASE HearSettings(c) \/ HearPenalty(c) \/ HearImport(c)
  <2>1. DOMAIN form' = FormFields /\ Hear(c, {}) /\ UNCHANGED automationVars
    BY <1>2, <1>6 DEF HearSettings, HearPenalty, HearImport
  <2> QED
    BY <1>2, <1>3, <2>1, HearKeepsIInv DEF automationVars
<1>7. CASE HearCollection(c) \/ HearHost(c)
  <2>1. /\ Hear(c, IF c.ok THEN {Get("getConfig")} ELSE {})
        /\ DOMAIN form' = FormFields /\ UNCHANGED automationVars
    BY <1>2, <1>7 DEF HearCollection, HearHost, settingsVars
  <2>2. \A d \in (IF c.ok THEN {Get("getConfig")} ELSE {}) : \E kind \in Gets : d = Get(kind)
    BY DEF Gets
  <2> QED
    BY <1>2, <1>3, <2>1, <2>2, HearKeepsIInv DEF automationVars
<1> QED
  BY <1>1, <1>4, <1>5, <1>6, <1>7

\* What a call becomes is as good as the call.
LEMMA ChangedCalls ==
  ASSUME NEW c, NEW yes, CallOK(c, yes)
  PROVE  /\ CallOK([c EXCEPT !.heard = FALSE], yes)
         /\ \A b : CallOK([c EXCEPT !.alone = b], yes)
         /\ CallOK([c EXCEPT !.stage = "answered"], yes)
         /\ \A ok \in BOOLEAN : c.stage \in {"loaded", "truncated"} =>
              CallOK([c EXCEPT !.ok = ok], yes)
         /\ c.stage = "loaded" => CallOK([c EXCEPT !.stage = "truncated"], yes)
<1>1. IsCall(c)
  BY DEF CallOK
<1>2. ASSUME NEW f \in {"stage", "alone", "ok", "heard"}, NEW v
      PROVE  IsCall([c EXCEPT ![f] = v])
  BY <1>1 DEF IsCall, FieldsOfCalls
<1>3. CallOK([c EXCEPT !.heard = FALSE], yes)
  <2>1. IsCall([c EXCEPT !.heard = FALSE])
    BY <1>2
  <2> QED
    BY <1>1, <2>1 DEF CallOK, IsCall, FieldsOfCalls
<1>4. ASSUME NEW b PROVE CallOK([c EXCEPT !.alone = b], yes)
  <2>1. IsCall([c EXCEPT !.alone = b])
    BY <1>2
  <2> QED
    BY <1>1, <2>1 DEF CallOK, IsCall, FieldsOfCalls
<1>5. CallOK([c EXCEPT !.stage = "answered"], yes)
  <2>1. IsCall([c EXCEPT !.stage = "answered"])
    BY <1>2
  <2> QED
    BY <1>1, <2>1 DEF CallOK, IsCall, FieldsOfCalls
<1>6. ASSUME NEW ok \in BOOLEAN, c.stage \in {"loaded", "truncated"}
      PROVE  CallOK([c EXCEPT !.ok = ok], yes)
  <2>1. IsCall([c EXCEPT !.ok = ok])
    BY <1>2
  <2> QED
    BY <1>1, <1>6, <2>1 DEF CallOK, IsCall, FieldsOfCalls
<1>7. ASSUME c.stage = "loaded" PROVE CallOK([c EXCEPT !.stage = "truncated"], yes)
  <2>1. IsCall([c EXCEPT !.stage = "truncated"])
    BY <1>2
  <2> QED
    BY <1>1, <1>7, <2>1 DEF CallOK, IsCall, FieldsOfCalls
<1> QED
  BY <1>3, <1>4, <1>5, <1>6, <1>7

LEMMA LoadedCalls ==
  ASSUME NEW c, NEW yes, NEW x, CallOK(c, yes), Known(x, yes), x # Torn \/ c.kind = "import"
  PROVE  /\ CallOK([c EXCEPT !.seen = x, !.ok = TRUE], yes)
         /\ CallOK([c EXCEPT !.seen = x, !.stage = "loaded"], yes)
<1>1. DOMAIN c = FieldsOfCalls
  BY DEF CallOK, IsCall
<1>2. CallOK([c EXCEPT !.seen = x, !.ok = TRUE], yes)
  BY <1>1 DEF CallOK, IsCall, FieldsOfCalls
<1>3. CallOK([c EXCEPT !.seen = x, !.stage = "loaded"], yes)
  BY <1>1 DEF CallOK, IsCall, FieldsOfCalls
<1> QED
  BY <1>2, <1>3

\* ... or the defaults, for a read of the penalties.
LEMMA PenaltiesRead ==
  ASSUME NEW c, NEW yes, CallOK(c, yes), c.kind = "getPenalty", c.stage = "sent"
  PROVE  \A x : CallOK([c EXCEPT !.seen = x, !.ok = TRUE], yes)
BY DEF CallOK, IsCall, FieldsOfCalls

LEMMA AnsweredCalls ==
  ASSUME NEW c, NEW d, NEW yes, CallOK(d, yes)
  PROVE  \A e \in Answered(c, d) : CallOK(e, yes)
BY ChangedCalls DEF Answered

\* The service: reads, truncations, writes and crashes.
LEMMA ServiceKeepsIInv ==
  ASSUME IInv, Serving \/ Failing
  PROVE  IInv'
<1>0. /\ UNCHANGED <<automationConfig, maintenanceNodes, confirmed, form, newWindowData>>
      /\ PageOK(automationConfig, confirmed) /\ maintenanceNodes \subseteq Nodes
      /\ DOMAIN form = FormFields /\ WindowFormOK(newWindowData)
      /\ wanted # Torn => DOMAIN wanted = Fields
      /\ Known(file, confirmed)
      /\ \A c \in calls : CallOK(c, confirmed)
  BY DEF Serving, Failing, automationVars, windowVars, settingsVars, IInv
<1>1. SUFFICES /\ Known(file', confirmed) /\ UNCHANGED wanted
               /\ \A d \in calls' : CallOK(d, confirmed)
  BY <1>0 DEF IInv
<1>2. ASSUME NEW c \in calls, Load(c)
      PROVE  UNCHANGED <<file, wanted>> /\ \A d \in calls' : CallOK(d, confirmed)
  <2>1. UNCHANGED <<file, wanted>>
    BY <1>2 DEF Load
  <2> DEFINE refused == ~c.valid \/ (file = Torn /\ c.kind \notin {"import", "getPenalty"})
  <2>2. CASE refused
    <3>1. calls' = (calls \ {c}) \cup Answered(c, c)
      BY <1>2, <2>2 DEF Load
    <3> QED
      BY <1>0, <2>1, <3>1, AnsweredCalls
  <2>3. CASE ~refused /\ c.kind \in Gets
    <3>1. calls' = (calls \ {c}) \cup Answered(c, [c EXCEPT !.seen = ReadBy(c), !.ok = TRUE])
      BY <1>2, <2>3 DEF Load
    <3>2. CallOK([c EXCEPT !.seen = ReadBy(c), !.ok = TRUE], confirmed)
      <4>1. CASE c.kind = "getPenalty"
        BY <1>0, <1>2, <4>1, PenaltiesRead DEF Load
      <4>2. CASE c.kind # "getPenalty"
        <5>1. ReadBy(c) = file /\ (file # Torn \/ c.kind = "import")
          BY <2>3, <4>2 DEF ReadBy
        <5> QED
          BY <1>0, <5>1, LoadedCalls
      <4> QED
        BY <4>1, <4>2
    <3> QED
      BY <1>0, <2>1, <3>1, <3>2, AnsweredCalls
  <2>4. CASE ~refused /\ c.kind \notin Gets
    <3>1. calls' = (calls \ {c}) \cup {[c EXCEPT !.seen = file, !.stage = "loaded"]}
      BY <1>2, <2>4 DEF Load
    <3>2. CallOK([c EXCEPT !.seen = file, !.stage = "loaded"], confirmed)
      BY <1>0, <2>4, LoadedCalls DEF Gets
    <3> QED
      BY <1>0, <2>1, <3>1, <3>2
  <2> QED
    BY <2>2, <2>3, <2>4
<1>3. ASSUME NEW c \in calls, Truncate(c)
      PROVE  file' = Torn /\ UNCHANGED wanted /\ \A d \in calls' : CallOK(d, confirmed)
  BY <1>0, <1>3, ChangedCalls DEF Truncate
<1>4. ASSUME NEW c \in calls, Dump(c)
      PROVE  /\ Known(file', confirmed) /\ UNCHANGED wanted
             /\ \A d \in calls' : CallOK(d, confirmed)
  <2>1. DOMAIN Result(c) = Fields /\ Confirmed(Result(c), confirmed)
    BY <1>0, <1>4, ResultIsKnown DEF Dump
  <2>2. file' = Result(c) \/ file' = Torn
    BY <1>4 DEF Dump
  <2>3. PICK ok \in BOOLEAN :
          calls' = {[d EXCEPT !.alone = @ /\ d.stage # "truncated"] : d \in calls \ {c}}
                   \cup Answered(c, [c EXCEPT !.ok = ok])
    BY <1>4 DEF Dump
  <2>4. CallOK([c EXCEPT !.ok = ok], confirmed)
    BY <1>0, <1>4, ChangedCalls DEF Dump
  <2>5. \A d \in calls : CallOK([d EXCEPT !.alone = @ /\ d.stage # "truncated"], confirmed)
    BY <1>0, ChangedCalls
  <2>6. \A d \in calls' : CallOK(d, confirmed)
    BY <2>3, <2>4, <2>5, AnsweredCalls
  <2> QED
    BY <1>4, <2>1, <2>2, <2>6 DEF Known, Dump
<1>5. CASE Crash
  BY <1>0, <1>5, AnsweredCalls DEF Crash
<1> QED
  BY <1>0, <1>2, <1>3, <1>4, <1>5 DEF Serving, Serve, Failing, Known

\* What a new page reads, and what its maintenance effect saves.
LEMMA MountCallsAreOK ==
  ASSUME NEW yes
  PROVE  \A c \in MountGets \cup MountSaves : CallOK(c, yes)
<1> USE FieldNames
<1>1. \A c \in MountGets : \E kind \in Gets : c = Get(kind)
  BY DEF MountGets, Gets
<1> DEFINE change == Change("maintenance", maintenanceNodes)
<1>2. DOMAIN change = {"maintenance"}
  BY OneField
<1>3. \A c \in MountSaves : c = Call("automation", change, TRUE)
  BY DEF MountSaves
<1> HIDE DEF change
<1>4. Confirmed(change, yes)
  BY <1>2, HarmlessIsConfirmed
<1>5. "automation" # "import"
  OBVIOUS
<1>6. CallOK(Call("automation", change, TRUE), yes)
  BY <1>2, <1>4, <1>5, NewCallIsOK
<1> QED
  BY <1>1, <1>3, <1>6, GetIsOK

LEMMA DefaultsAreOK ==
  /\ \A yes : PageOK(DefaultConfig, yes)
  /\ DOMAIN EmptyForm = FormFields
  /\ WindowFormOK(Null)
<1>1. DOMAIN DefaultConfig =
        {"enabled", "dry_run", "interval", "limit", "max_cpu", "presets", "maintenance"}
  BY DEF DefaultConfig
<1>2. DOMAIN DefaultConfig \subseteq AutomationFields /\ "restarts" \notin DOMAIN DefaultConfig
  BY <1>1 DEF AutomationFields, Rules, Safety
<1> QED
  BY <1>2 DEF PageOK, EmptyForm, FormFields, WindowFormOK

LEMMA ReloadKeepsIInv ==
  ASSUME IInv, Reload
  PROVE  IInv'
<1>1. UNCHANGED <<file, confirmed, maintenanceNodes>> /\ (wanted' = wanted \/ wanted' = Torn)
  BY DEF Reload, Abandon
<1>2. calls' = {[c EXCEPT !.heard = FALSE] : c \in calls} \cup MountGets \cup MountSaves
  BY DEF Reload, Abandon
<1>3. \A c \in calls' : CallOK(c, confirmed)
  <2>1. \A c \in calls : CallOK([c EXCEPT !.heard = FALSE], confirmed)
    BY ChangedCalls DEF IInv
  <2>2. \A c \in MountGets \cup MountSaves : CallOK(c, confirmed)
    BY MountCallsAreOK
  <2> QED
    BY <1>2, <2>1, <2>2
<1>4. automationConfig' = DefaultConfig /\ form' = EmptyForm /\ newWindowData' = Null
  BY DEF Reload
<1> QED
  BY <1>1, <1>3, <1>4, DefaultsAreOK DEF IInv

-----------------------------------------------------------------------------
\* The inductive invariant holds.
THEOREM Invariance == Spec => []IInv
<1>1. Init => IInv
  <2> SUFFICES ASSUME Init PROVE IInv
    OBVIOUS
  <2>1. /\ file = InitialFile /\ wanted = InitialFile /\ calls = MountGets
        /\ automationConfig = DefaultConfig /\ maintenanceNodes = {}
        /\ form = EmptyForm /\ newWindowData = Null
    BY DEF Init, FileInit
  <2>2. Known(InitialFile, confirmed) /\ DOMAIN InitialFile = Fields
    BY FilesAssumption DEF Known, Confirmed, Given
  <2> QED
    BY <2>1, <2>2, MountCallsAreOK, DefaultsAreOK DEF IInv
<1>2. IInv /\ [Next]_vars => IInv'
  <2> SUFFICES ASSUME IInv, [Next]_vars PROVE IInv'
    OBVIOUS
  <2>1. CASE UserOfAutomation /\ UNCHANGED <<windowVars, settingsVars>>
    BY <2>1, AutomationKeepsIInv
  <2>2. CASE WindowActions /\ UNCHANGED settingsVars
    BY <2>2, WindowsKeepIInv
  <2>3. CASE (UserOfSettings \/ DistributionBalancing) /\ UNCHANGED windowVars
    BY <2>3, SettingsKeepIInv, BalancingKeepsIInv
  <2>4. CASE Reload
    BY <2>4, ReloadKeepsIInv
  <2>5. CASE Answer
    BY <2>5, AnswerKeepsIInv
  <2>6. CASE Serving \/ Failing
    BY <2>6, ServiceKeepsIInv
  <2>7. CASE UNCHANGED vars
    BY <2>7, RestKeepsIInv DEF vars, automationVars, windowVars, settingsVars, IInv
  <2> QED
    BY <2>1, <2>2, <2>3, <2>4, <2>5, <2>6, <2>7 DEF Next
<1> QED
  BY <1>1, <1>2, PTL DEF Spec

\* The file, the page and the calls keep their types.
THEOREM TypeCorrect == Spec => []TypeOK
<1>1. IInv => TypeOK
  BY DEF IInv, TypeOK, Known, CallOK, PageOK
<1> QED
  BY <1>1, Invariance, PTL

\* The automation acts for real, and restarts containers, only after somebody said yes
\* to that: whatever sections and stale copies are saved, and whatever is lost.
THEOREM NothingActsUnconfirmed == Spec => []NothingUnconfirmed
<1>1. IInv => NothingUnconfirmed
  <2> SUFFICES ASSUME IInv, file # Torn, NEW f \in {"enabled", "dry_run", "restarts"},
                      Risky(f, file)
               PROVE  f \in confirmed \/ Risky(f, InitialFile)
    BY DEF NothingUnconfirmed
  <2>1. f \in Fields
    BY DEF Fields, AutomationFields, Rules
  <2> QED
    BY <2>1 DEF IInv, Known, Confirmed, Given, Risks
<1> QED
  BY <1>1, Invariance, PTL

-----------------------------------------------------------------------------
(* A file that was cut off.                                                *)

\* A page leaves the file alone; its new calls have not been taken up.
OnlySends == file' = file /\ \A c \in calls' : c \in calls \/ c.stage = "sent"

LEMMA SaveOnlySends ==
  /\ \A c, wish : c.stage = "sent" /\ Save(c, wish) => OnlySends
  /\ \A kind, update, valid, wish : Save(Call(kind, update, valid), wish) => OnlySends
<1>1. \A c, wish : c.stage = "sent" /\ Save(c, wish) => OnlySends
  BY DEF Save, OnlySends
<1>2. \A kind, update, valid : Call(kind, update, valid).stage = "sent"
  BY DEF Call
<1> QED
  BY <1>1, <1>2

LEMMA RestOnlySends ==
  ASSUME UNCHANGED fileVars
  PROVE  OnlySends
BY DEF OnlySends, fileVars

LEMMA HearOnlySends ==
  ASSUME NEW c, NEW gets, Hear(c, gets), \A d \in gets : \E kind \in Gets : d = Get(kind)
  PROVE  OnlySends
BY DEF Hear, OnlySends, Get, Call

LEMMA EditOnlySends ==
  ASSUME NEW control, NEW section, NEW change, Edit(control, section, change)
  PROVE  OnlySends
BY SaveOnlySends DEF Edit, SaveAutomationConfig, SaveAs

LEMMA AutomationOnlySends ==
  ASSUME UserOfAutomation
  PROVE  OnlySends
<1>1. ASSUME NEW f, NEW section, NEW risky, GuardedSwitch(f, section, risky) PROVE OnlySends
  BY <1>1, EditOnlySends, SaveOnlySends, RestOnlySends
     DEF GuardedSwitch, Ask, SaveAutomationConfig, SaveAs, fileVars
<1>2. CASE EnableAutomation \/ DryRun \/ AllowContainerRestarts
  BY <1>1, <1>2 DEF EnableAutomation, DryRun, AllowContainerRestarts
<1>3. CASE CheckInterval \/ RuleNumbers \/ SafetyNumbers \/ RuleSwitches
  BY <1>3, EditOnlySends DEF CheckInterval, RuleNumbers, SafetyNumbers, RuleSwitches
<1>4. CASE SafetySwitches \/ RollbackDetection \/ Timezone \/ EditPresetValue
  BY <1>4, EditOnlySends DEF SafetySwitches, RollbackDetection, Timezone, EditPresetValue
<1>5. CASE EditPresets
  BY <1>5, RestOnlySends DEF EditPresets
<1>6. ASSUME NEW p, ApplyPreset(p) PROVE OnlySends
  BY <1>6, SaveOnlySends, RestOnlySends DEF ApplyPreset, SaveAutomationConfig, SaveAs
<1>7. ASSUME NEW n, ToggleMaintenance(n) PROVE OnlySends
  BY <1>7, SaveOnlySends, RestOnlySends DEF ToggleMaintenance, SaveAutomationConfig, SaveAs
<1> QED
  BY <1>2, <1>3, <1>4, <1>5, <1>6, <1>7 DEF UserOfAutomation

LEMMA WindowsOnlySend ==
  ASSUME WindowActions
  PROVE  OnlySends
<1>1. ASSUME NEW change, NEW wish, SaveWindows(change, wish) PROVE OnlySends
  BY <1>1, SaveOnlySends DEF SaveWindows, SaveAs
<1>2. ASSUME NEW row, NEW field, NEW value, ChangeWindow(row, field, value) PROVE OnlySends
  BY <1>1, <1>2 DEF ChangeWindow
<1>3. ASSUME NEW new, Form(new) PROVE OnlySends
  BY <1>3, RestOnlySends DEF Form
<1>4. CASE OpenFromTimeline \/ OpenEditor
  BY <1>4, RestOnlySends DEF OpenFromTimeline, OpenEditor
<1>5. CASE ToggleType
  BY <1>1, <1>5 DEF ToggleType
<1>6. CASE RenameWindow \/ ChangeDays \/ ChangeTimes
  BY <1>2, <1>6 DEF RenameWindow, ChangeDays, ChangeTimes
<1>7. CASE RemoveWindow
  BY <1>1, <1>7, RestOnlySends DEF RemoveWindow
<1>8. CASE OpenForm \/ CloseForm \/ FillNameAndType \/ FillDays \/ FillTimes
  BY <1>3, <1>8 DEF OpenForm, CloseForm, FillNameAndType, FillDays, FillTimes
<1>9. CASE SaveWindow
  BY <1>1, <1>9 DEF SaveWindow
<1> QED
  BY <1>4, <1>5, <1>6, <1>7, <1>8, <1>9 DEF WindowActions

LEMMA SettingsOnlySend ==
  ASSUME UserOfSettings \/ DistributionBalancing
  PROVE  OnlySends
<1>1. ASSUME NEW kind, NEW update, NEW valid, NEW wish, Request(Call(kind, update, valid), wish)
      PROVE  OnlySends
  BY <1>1, SaveOnlySends DEF Request
<1>2. CASE EditProvider \/ EditModel \/ EditToken \/ EditPenalty
  BY <1>2, RestOnlySends DEF EditProvider, EditModel, EditToken, EditPenalty, Fill
<1>3. CASE SaveSettings \/ SavePenaltyConfig \/ ResetPenaltyConfig
  BY <1>1, <1>3 DEF SaveSettings, SavePenaltyConfig, ResetPenaltyConfig, SavePenalty
<1>4. CASE ApplyCollection
  BY <1>1, <1>4 DEF ApplyCollection
<1>7. CASE Import
  <2>1. PICK new, valid, keeps : Save(ImportCall(new, valid, keeps), Imported(new, keeps, wanted))
    BY <1>7 DEF Import, Request, ImportCall
  <2> QED
    BY <2>1, NewImportIsOK, SaveOnlySends
<1>5. CASE ChangeHost
  BY <1>1, <1>5, RestOnlySends DEF ChangeHost
<1>6. CASE DistributionBalancing
  BY <1>6, SaveOnlySends DEF DistributionBalancing, SaveAutomationConfig, SaveAs
<1> QED
  BY <1>2, <1>3, <1>4, <1>5, <1>6, <1>7 DEF UserOfSettings

LEMMA AnswersOnlySend ==
  ASSUME Answer
  PROVE  OnlySends
<1>1. \A gets : gets = {} \/ gets = {Get("getConfig")} =>
        \A d \in gets : \E kind \in Gets : d = Get(kind)
  BY DEF Gets
<1>2. \E c \in calls : \E gets : Hear(c, gets) /\ (gets = {} \/ gets = {Get("getConfig")})
  BY DEF Answer, HearAutomation, HearConfig, HearSettings, HearCollection, HearPenalty,
         HearHost, HearImport
<1> QED
  BY <1>1, <1>2, HearOnlySends

\* A file that was cut off stays so until an import, whatever the pages do.
THEOREM OnlyAnImportRepairs == Spec => SpoiltUntilImported
<1>1. IInv /\ [Next]_vars =>
        [Spoilt => \/ Spoilt'
                   \/ \E c \in calls : c.kind = "import" /\ c.stage = "loaded"]_vars
  <2> SUFFICES ASSUME IInv, Next, Spoilt,
                      \A c \in calls : ~(c.kind = "import" /\ c.stage = "loaded")
               PROVE  Spoilt'
    OBVIOUS
  <2>1. \A c \in calls : CallOK(c, confirmed) /\ c.stage \in {"sent", "answered"}
    BY DEF Spoilt, IInv, CallOK
  <2>2. ASSUME file' = Torn,
               \A c \in calls' : c.stage \in {"sent", "answered"} \/
                                 (c.stage = "loaded" /\ c.kind = "import")
        PROVE  Spoilt'
    BY <2>2 DEF Spoilt
  <2>3. CASE OnlySends
    BY <2>1, <2>2, <2>3 DEF OnlySends, Spoilt
  <2>4. ASSUME NEW c \in calls, Load(c) PROVE Spoilt'
    <3>1. DOMAIN c = FieldsOfCalls
      BY <2>1 DEF CallOK, IsCall, FieldsOfCalls
    <3>2. \A d, e : e \in Answered(c, d) /\ "stage" \in DOMAIN d => e.stage = "answered"
      BY DEF Answered
    <3>3. file' = Torn
      BY <2>4 DEF Load, Spoilt
    <3>4. CASE ~c.valid \/ c.kind \notin {"import", "getPenalty"}
      <4>1. calls' = (calls \ {c}) \cup Answered(c, c)
        BY <2>4, <3>4 DEF Load, Spoilt
      <4>2. "stage" \in DOMAIN c
        BY <3>1 DEF FieldsOfCalls
      <4> QED
        BY <2>1, <2>2, <3>2, <3>3, <4>1, <4>2
    <3>6. CASE c.valid /\ c.kind = "getPenalty"
      <4> DEFINE d == [c EXCEPT !.seen = ReadBy(c), !.ok = TRUE]
      <4>1. calls' = (calls \ {c}) \cup Answered(c, d)
        BY <2>4, <3>6 DEF Load, Gets
      <4>2. "stage" \in DOMAIN d
        BY <3>1 DEF FieldsOfCalls
      <4> HIDE DEF d
      <4> QED
        BY <2>1, <2>2, <3>2, <3>3, <4>1, <4>2
    <3>5. CASE c.valid /\ c.kind = "import"
      <4>1. calls' = (calls \ {c}) \cup {[c EXCEPT !.seen = file, !.stage = "loaded"]}
        BY <2>4, <3>5 DEF Load, Spoilt, Gets
      <4> DEFINE d == [c EXCEPT !.seen = file, !.stage = "loaded"]
      <4>2. d.stage = "loaded" /\ d.kind = "import"
        BY <3>1, <3>5 DEF FieldsOfCalls
      <4> HIDE DEF d
      <4> QED
        BY <2>1, <2>2, <3>3, <4>1, <4>2 DEF d
    <3> QED
      BY <3>4, <3>5, <3>6
  <2>5. ASSUME NEW c \in calls, Truncate(c) \/ Dump(c) PROVE FALSE
    BY <2>1, <2>5 DEF Truncate, Dump
  <2>6. CASE Crash
    <3>1. \A c \in calls : "stage" \in DOMAIN c
      BY <2>1 DEF CallOK, IsCall, FieldsOfCalls
    <3>2. file' = Torn /\ \A c \in calls' : c.stage = "answered"
      BY <2>6, <3>1 DEF Crash, Answered, Spoilt
    <3> QED
      BY <2>2, <3>2
  <2>7. CASE Reload
    <3>1. file' = Torn
      BY <2>7 DEF Reload, Abandon, Spoilt
    <3>2. calls' = {[c EXCEPT !.heard = FALSE] : c \in calls} \cup MountGets \cup MountSaves
      BY <2>7 DEF Reload, Abandon
    <3>3. \A c \in calls : [c EXCEPT !.heard = FALSE].stage = c.stage
      BY <2>1 DEF CallOK, IsCall, FieldsOfCalls
    <3>4. \A c \in MountGets \cup MountSaves : c.stage = "sent"
      BY DEF MountGets, MountSaves, Get, Call
    <3> QED
      BY <2>1, <2>2, <3>1, <3>2, <3>3, <3>4
  <2> QED
    BY <2>3, <2>4, <2>5, <2>6, <2>7, AutomationOnlySends, WindowsOnlySend, SettingsOnlySend,
       AnswersOnlySend DEF Next, Serving, Serve, Failing
<1> QED
  BY <1>1, Invariance, PTL DEF Spec, SpoiltUntilImported

-----------------------------------------------------------------------------
(* The file that is wanted, and the pages that show it.                    *)

\* An "import" has no other control beside it: in the two seconds before the page is
\* loaded again, an edit would send what the page has read of the file before.
ImportsStandAlone == \A p \in Parts : "import" \in p => p \subseteq {"import", "reliable"}

\* What c writes, or answers with, once it has read x.
Outcome(c, x) == IF c.kind = "import" THEN Imported(c.update, c.keeps, x) ELSE Merge(c.update, x)

\* A call that reads the wanted file.
ReadOK(c) ==
    /\ c.kind \in Gets /\ c.update = <<>>
    /\ c.stage \in {"sent", "answered"}
    /\ c.ok => c.stage = "answered" /\ c.seen = wanted

\* A save by which the file becomes the wanted one.
SaveOK(c) ==
    /\ c.kind \notin Gets
    /\ c.kind = "import" => "import" \in part
    /\ c.stage = "sent" => file # Torn /\ Outcome(c, file) = wanted
    /\ c.stage \in {"loaded", "truncated"} => Result(c) = wanted
    /\ c.ok => c.stage = "answered" /\ Result(c) = wanted /\ file = wanted

InFlight(kinds) == \E c \in calls : c.kind \in kinds

\* The copies on the pages are of the wanted file, or about to be replaced.
AutomationCurrent ==
    \/ automationConfig = [f \in AutomationFields |-> wanted[f]]
    \/ InFlight({"automation", "getAutomation", "import"})

SettingsCurrent ==
    /\ \/ /\ DOMAIN config = SettingsFields
          /\ \A f \in SettingsFields \ (typed \cap RootFields) : config[f] = wanted[f]
       \/ InFlight({"getConfig", "settings", "collection", "host", "import"})
    /\ \/ \A f \in FormFields \ typed : form[f] = wanted[f]
       \/ InFlight({"getConfig", "collection", "host", "import"})

PenaltyCurrent ==
    \/ penaltyConfig = wanted["penalty"]
    \/ InFlight({"getPenalty", "penalty", "import"})

\* As long as one knows which file is wanted, it is there, but for one save.
Tracked ==
    /\ IsFile(wanted) /\ made \in Nat /\ WindowsOK(wanted, made)
    /\ \A c \in calls : c.heard /\ c.alone
    /\ \/ file = wanted /\ \A c \in calls : ReadOK(c)
       \/ \E c \in calls : calls = {c} /\ SaveOK(c)
    /\ reloadDue => "import" \in part
    /\ ~reloadDue => /\ part \ SettingsControls # {} => AutomationCurrent
                     /\ part \cap SettingsControls # {} => SettingsCurrent
                     /\ "penalty" \in part \ typed => PenaltyCurrent

\* What is open on the automation page was opened by a control of this behaviour.
NewWindows == [type : Lists, name : STRING, days : SUBSET Days, times : Times]

OpenedByControls ==
    /\ part \in Parts
    /\ confirming \subseteq part \cup (IF "presets" \in part THEN Presets ELSE {})
    /\ editingWindowIndex # Null => "edit" \in part
    /\ newWindowData # Null => "add" \in part /\ newWindowData \in NewWindows

SettledInv == wanted # Torn => Tracked

\* Merging into a file makes a file, and depends on the fields that change it only.
LEMMA MergeFacts ==
  ASSUME NEW x, IsFile(x)
  PROVE  /\ DOMAIN x = Fields
         /\ Merge(<<>>, x) = x
         /\ \A u : IsFile(Merge(u, x))
         /\ \A u : \A f \in Fields : Merge(u, x)[f] = IF f \in DOMAIN u THEN u[f] ELSE x[f]
<1>1. DOMAIN x = Fields
  BY DEF IsFile
<1>2. Merge(<<>>, x) = x
  BY <1>1 DEF Merge, IsFile
<1> QED
  BY <1>1, <1>2 DEF Merge, IsFile

LEMMA SameMerge ==
  ASSUME NEW x, IsFile(x), NEW u, NEW v,
         \A f \in Fields : (IF f \in DOMAIN u THEN u[f] ELSE x[f])
                          = (IF f \in DOMAIN v THEN v[f] ELSE x[f])
  PROVE  Merge(u, x) = Merge(v, x)
BY MergeFacts DEF Merge

LEMMA MergeFile ==
  ASSUME NEW x, IsFile(x), NEW u, IsFile(u)
  PROVE  Merge(u, x) = u
BY MergeFacts DEF Merge, IsFile

\* Windows are as they were when neither list changes.
LEMMA SameWindows ==
  ASSUME NEW x, NEW y, NEW m \in Nat, WindowsOK(x, m), \A l \in Lists : y[l] = x[l]
  PROVE  WindowsOK(y, m) /\ WindowsOK(y, m + 1)
<1>1. WindowsOK(y, m)
  BY DEF WindowsOK, Lists
<1>2. m + 1 + 1..MaxSaves \subseteq m + 1..MaxSaves
  BY BoundsAssumption
<1> QED
  BY <1>1, <1>2 DEF WindowsOK

\* The rest of a section that is sent with a change is what the file has.
LEMMA SectionIsCurrent ==
  ASSUME Tracked, calls = {}, wanted # Torn,
         NEW section \in Sections, section = {} \/ (part \ SettingsControls # {} /\ ~reloadDue),
         NEW change
  PROVE  Merge([f \in DOMAIN change \cup (section \cap DOMAIN automationConfig) |->
                  IF f \in DOMAIN change THEN change[f] ELSE automationConfig[f]], wanted)
         = Merge(change, wanted)
<1> DEFINE sent == [f \in DOMAIN change \cup (section \cap DOMAIN automationConfig) |->
                      IF f \in DOMAIN change THEN change[f] ELSE automationConfig[f]]
<1>1. IsFile(wanted)
  BY DEF Tracked
<1>2. ASSUME NEW f \in Fields, f \in section \cap DOMAIN automationConfig
      PROVE  automationConfig[f] = wanted[f]
  BY <1>2 DEF Tracked, AutomationCurrent, InFlight
<1>3. \A f \in Fields : (IF f \in DOMAIN sent THEN sent[f] ELSE wanted[f])
                        = (IF f \in DOMAIN change THEN change[f] ELSE wanted[f])
  BY <1>2
<1> HIDE DEF sent
<1>4. Merge(sent, wanted) = Merge(change, wanted)
  BY <1>1, <1>3, SameMerge
<1> QED
  BY <1>4 DEF sent

-----------------------------------------------------------------------------
(* What the steps do to it.                                                *)

\* What is shown for a field changes only where the user types.
CopiesKept ==
    /\ typed \subseteq typed'
    /\ DOMAIN config' = DOMAIN config
    /\ DOMAIN config = SettingsFields =>
         \A f \in SettingsFields \ (typed' \cap RootFields) : config'[f] = config[f]
    /\ \A f \in FormFields \ typed' : form'[f] = form[f]
    /\ "penalty" \notin typed' => penaltyConfig' = penaltyConfig

LEMMA SameCopies ==
  /\ UNCHANGED <<config, form, penaltyConfig, typed>> => CopiesKept
  /\ UNCHANGED settingsVars => CopiesKept
BY DEF CopiesKept, settingsVars

\* The fields of the three endpoints' sections are different ones.
OtherFields == SettingsFields \cup {"penalty"}

LEMMA FieldsDiffer ==
  /\ AutomationFields \cap OtherFields = {} /\ Lists \cap OtherFields = {}
  /\ Lists \subseteq AutomationFields /\ FormFields \cap RootFields = {}
  /\ FormFields \cup RootFields \subseteq SettingsFields /\ "penalty" \notin SettingsFields
  /\ AutomationFields \cup OtherFields = Fields
BY DEF AutomationFields, OtherFields, SettingsFields, FormFields, RootFields, Rules, Safety,
       Schedule, Balance, Lists, Fields

\* A save.
LEMMA SaveTracks ==
  ASSUME SettledInv, NEW c, NEW wish, Save(c, wish), wanted' # Torn,
         UNCHANGED <<automationConfig, part, reloadDue>>,
         c.stage = "sent", c.heard, c.alone, ~c.ok, c.kind \notin Gets,
         c.kind = "import" => "import" \in part,
         calls = {} /\ wanted # Torn /\ Tracked =>
           /\ Outcome(c, wanted) = Merge(wish, wanted)
           /\ WindowsOK(Merge(wish, wanted), made + 1),
         CopiesKept,
         c.kind \in {"automation", "import"} \/ DOMAIN wish \cap AutomationFields = {},
         c.kind \in {"settings", "collection", "host", "import"}
           \/ DOMAIN wish \cap SettingsFields = {},
         c.kind \in {"collection", "host", "import"}
           \/ \A f \in FormFields \cap DOMAIN wish : wish[f] = form[f],
         c.kind \in {"penalty", "import"} \/ "penalty" \notin DOMAIN wish
  PROVE  Tracked'
<1>1. calls = {} /\ wanted # Torn /\ wanted' = Merge(wish, wanted) /\ Tracked
  BY DEF Save, SettledInv
<1>2. /\ file' = wanted /\ file' # Torn /\ calls' = {c} /\ made' = made + 1 /\ made \in Nat
  BY <1>1 DEF Save, Tracked
<1>3. IsFile(wanted') /\ IsFile(wanted)
  BY <1>1, MergeFacts DEF Tracked
<1>4. SaveOK(c)'
  BY <1>1, <1>2 DEF SaveOK, Outcome
<1>5. \A f \in Fields : wanted'[f] = IF f \in DOMAIN wish THEN wish[f] ELSE wanted[f]
  BY <1>1, <1>3, MergeFacts
<1>6. ~reloadDue /\ part \ SettingsControls # {} => AutomationCurrent'
  <2>1. CASE c.kind \in {"automation", "import"}
    BY <1>2, <2>1 DEF AutomationCurrent, InFlight
  <2>2. CASE DOMAIN wish \cap AutomationFields = {}
    BY <1>1, <1>5, <2>2 DEF Tracked, AutomationCurrent, InFlight, Fields
  <2> QED
    BY <2>1, <2>2
<1>7. ASSUME ~reloadDue, part \cap SettingsControls # {} PROVE SettingsCurrent'
  <2> DEFINE Copied == /\ DOMAIN config = SettingsFields
                       /\ \A f \in SettingsFields \ (typed \cap RootFields) : config[f] = wanted[f]
             Filled == \A f \in FormFields \ typed : form[f] = wanted[f]
  <2>1. Copied /\ Filled
    BY <1>1, <1>7 DEF Tracked, SettingsCurrent, InFlight
  <2>2. SettingsFields \subseteq Fields /\ FormFields \subseteq SettingsFields
    BY DEF Fields, SettingsFields
  <2>3. Copied' \/ InFlight({"getConfig", "settings", "collection", "host", "import"})'
    <3>1. CASE c.kind \in {"settings", "collection", "host", "import"}
      BY <1>2, <3>1 DEF InFlight
    <3>2. CASE DOMAIN wish \cap SettingsFields = {}
      <4>1. \A f \in SettingsFields : wanted'[f] = wanted[f]
        BY <1>5, <2>2, <3>2
      <4> QED
        BY <2>1, <4>1 DEF CopiesKept
    <3> QED
      BY <3>1, <3>2
  <2>4. Filled' \/ InFlight({"getConfig", "collection", "host", "import"})'
    <3>1. CASE c.kind \in {"collection", "host", "import"}
      BY <1>2, <3>1 DEF InFlight
    <3>2. CASE \A f \in FormFields \cap DOMAIN wish : wish[f] = form[f]
      <4>1. \A f \in FormFields \ typed : wanted'[f] = form[f]
        BY <1>5, <2>1, <2>2, <3>2
      <4> QED
        BY <4>1 DEF CopiesKept
    <3> QED
      BY <3>1, <3>2
  <2> QED
    BY <2>3, <2>4 DEF SettingsCurrent
<1>8. ASSUME ~reloadDue, "penalty" \in part \ typed' PROVE PenaltyCurrent'
  <2>1. CASE c.kind \in {"penalty", "import"}
    BY <1>2, <2>1 DEF PenaltyCurrent, InFlight
  <2>2. CASE "penalty" \notin DOMAIN wish
    <3>1. wanted'["penalty"] = wanted["penalty"]
      BY <1>5, <2>2 DEF Fields
    <3>2. penaltyConfig' = penaltyConfig /\ "penalty" \notin typed
      BY <1>8 DEF CopiesKept
    <3> QED
      BY <1>1, <1>8, <3>1, <3>2 DEF Tracked, PenaltyCurrent, InFlight
  <2> QED
    BY <2>1, <2>2
<1> QED
  BY <1>1, <1>2, <1>3, <1>4, <1>6, <1>7, <1>8 DEF Tracked

\* The page hears what the file was made, or is.
LEMMA HeardIsWanted ==
  ASSUME Tracked, NEW c \in calls, c.ok
  PROVE  /\ c.stage = "answered" /\ Result(c) = wanted /\ file = wanted
         /\ \A d \in calls \ {c} : ReadOK(d)
<1>1. CASE ReadOK(c)
  <2>1. Result(c) = wanted
    BY <1>1, MergeFacts DEF Tracked, ReadOK, Result, Gets
  <2> QED
    BY <1>1, <2>1 DEF Tracked, ReadOK, SaveOK
<1>2. CASE calls = {c} /\ SaveOK(c)
  BY <1>2 DEF SaveOK
<1> QED
  BY <1>1, <1>2 DEF Tracked

LEMMA HearTracks ==
  ASSUME SettledInv, NEW c \in calls, NEW gets, Hear(c, gets), wanted' # Torn,
         gets \subseteq {Get("getConfig")}, UNCHANGED part,
         c.kind \in {"automation", "getAutomation"} =>
           automationConfig' = [f \in AutomationFields |-> Result(c)[f]],
         c.kind \notin {"automation", "getAutomation"} => UNCHANGED automationConfig,
         c.kind \in {"settings", "getConfig"} =>
           config' = [f \in SettingsFields |-> Result(c)[f]],
         c.kind \notin {"settings", "getConfig"} => UNCHANGED config,
         c.kind = "getConfig" => form' = [f \in FormFields |-> Result(c)[f]],
         c.kind # "getConfig" => UNCHANGED form,
         c.kind \in {"penalty", "getPenalty"} => penaltyConfig' = Result(c)["penalty"],
         c.kind \notin {"penalty", "getPenalty"} => UNCHANGED penaltyConfig,
         c.kind = "settings" =>
           typed' = {f \in typed \ RootFields : f \in FormFields => form[f] # Result(c)[f]},
         c.kind = "getConfig" => typed' = typed \ (FormFields \cup RootFields),
         c.kind \in {"penalty", "getPenalty"} => typed' = typed \ {"penalty"},
         c.kind \notin {"settings", "getConfig", "penalty", "getPenalty"} => UNCHANGED typed,
         c.kind \in {"collection", "host"} => gets # {},
         reloadDue' <=> (reloadDue \/ c.kind = "import")
  PROVE  Tracked'
<1>1. /\ c.ok /\ wanted # Torn /\ wanted' = wanted /\ Tracked
      /\ calls' = (calls \ {c}) \cup gets /\ UNCHANGED <<file, made>>
  BY DEF Hear, SettledInv
<1>2. Result(c) = wanted /\ file = wanted /\ \A d \in calls \ {c} : ReadOK(d)
  BY <1>1, HeardIsWanted
<1>3. ASSUME NEW d, d = Get("getConfig")
      PROVE  ReadOK(d)' /\ d.heard /\ d.alone /\ d.kind = "getConfig"
  BY <1>3 DEF ReadOK, Get, Call, Gets
<1>4. \A d \in calls' : ReadOK(d)' /\ d.heard /\ d.alone
  <2>1. ASSUME NEW d \in calls \ {c} PROVE ReadOK(d)' /\ d.heard /\ d.alone
    BY <1>1, <1>2 DEF ReadOK, Tracked
  <2>2. ASSUME NEW d \in gets PROVE ReadOK(d)' /\ d.heard /\ d.alone
    <3>1. d = Get("getConfig")
      OBVIOUS
    <3> QED
      BY <1>3, <3>1
  <2> QED
    BY <1>1, <2>1, <2>2
<1>5. reloadDue' => "import" \in part'
  BY <1>1 DEF Tracked, ReadOK, SaveOK, Gets
<1>6. ASSUME ~reloadDue', part \ SettingsControls # {} PROVE AutomationCurrent'
  <2>1. CASE c.kind \in {"automation", "getAutomation"}
    BY <1>1, <1>2, <2>1 DEF AutomationCurrent
  <2>2. CASE c.kind \notin {"automation", "getAutomation"}
    BY <1>1, <1>6, <2>2 DEF Tracked, AutomationCurrent, InFlight
  <2> QED
    BY <2>1, <2>2
<1>7. ASSUME ~reloadDue', part \cap SettingsControls # {} PROVE SettingsCurrent'
  <2> DEFINE Copied == /\ DOMAIN config = SettingsFields
                       /\ \A f \in SettingsFields \ (typed \cap RootFields) : config[f] = wanted[f]
             Filled == \A f \in FormFields \ typed : form[f] = wanted[f]
  <2>1. CASE c.kind = "getConfig"
    <3>1. Copied' /\ Filled'
      BY <1>1, <1>2, <2>1
    <3> QED
      BY <3>1 DEF SettingsCurrent
  <2>2. CASE c.kind = "settings"
    <3>1. Copied'
      BY <1>1, <1>2, <2>2
    <3>2. Filled \/ InFlight({"getConfig", "collection", "host", "import"})
      BY <1>1, <1>7 DEF Tracked, SettingsCurrent
    <3>3. CASE Filled
      <4>1. \A f \in FormFields \ typed' : f \in typed => f \in RootFields \/ form[f] = wanted[f]
        BY <1>2, <2>2
      <4>2. Filled'
        BY <1>1, <2>2, <3>3, <4>1, FieldsDiffer
      <4> QED
        BY <3>1, <4>2 DEF SettingsCurrent
    <3>4. CASE InFlight({"getConfig", "collection", "host", "import"})
      BY <1>1, <2>2, <3>1, <3>4 DEF SettingsCurrent, InFlight
    <3> QED
      BY <3>2, <3>3, <3>4
  <2>3. CASE c.kind \in {"collection", "host"}
    BY <1>1, <1>3, <2>3 DEF SettingsCurrent, InFlight
  <2>4. CASE c.kind \notin {"settings", "getConfig", "collection", "host"}
    <3>1. \A f \in SettingsFields : f \in typed <=> f \in typed'
      BY <2>4, FieldsDiffer
    <3>2. Copied => Copied'
      BY <1>1, <2>4, <3>1, FieldsDiffer
    <3>3. Filled => Filled'
      BY <1>1, <2>4, <3>1, FieldsDiffer
    <3>4. SettingsCurrent /\ c.kind # "import"
      BY <1>1, <1>7 DEF Tracked
    <3>5. InFlight({"getConfig", "settings", "collection", "host", "import"}) =>
            InFlight({"getConfig", "settings", "collection", "host", "import"})'
      BY <1>1, <2>4, <3>4 DEF InFlight
    <3>6. InFlight({"getConfig", "collection", "host", "import"}) =>
            InFlight({"getConfig", "collection", "host", "import"})'
      BY <1>1, <2>4, <3>4 DEF InFlight
    <3> QED
      BY <3>2, <3>3, <3>4, <3>5, <3>6 DEF SettingsCurrent
  <2> QED
    BY <2>1, <2>2, <2>3, <2>4
<1>8. ASSUME ~reloadDue', "penalty" \in part \ typed' PROVE PenaltyCurrent'
  <2>1. CASE c.kind \in {"penalty", "getPenalty"}
    BY <1>1, <1>2, <2>1 DEF PenaltyCurrent
  <2>2. CASE c.kind \notin {"penalty", "getPenalty"}
    <3>1. "penalty" \notin typed /\ UNCHANGED penaltyConfig /\ c.kind # "import"
      BY <1>8, <2>2, FieldsDiffer
    <3> QED
      BY <1>1, <1>8, <2>2, <3>1 DEF Tracked, PenaltyCurrent, InFlight
  <2> QED
    BY <2>1, <2>2
<1> QED
  BY <1>1, <1>2, <1>4, <1>5, <1>6, <1>7, <1>8 DEF Tracked

\* The service works at a call: its update stays, and somebody waits for it.
LEMMA ServingTracks ==
  ASSUME IInv, SettledInv, Serve \/ Crash, UNCHANGED <<automationVars, settingsVars>>,
         wanted' # Torn
  PROVE  Tracked'
<1>0. /\ UNCHANGED <<wanted, made, automationConfig, part, config, reloadDue, form, typed,
                     penaltyConfig>>
      /\ wanted # Torn /\ Tracked
  BY DEF Serve, Crash, Load, Truncate, Dump, automationVars, settingsVars, SettledInv
<1>1. ASSUME /\ \A d \in calls' : d.heard /\ d.alone
             /\ \A d \in calls : \E e \in calls' : e.kind = d.kind,
             \/ file' = wanted /\ \A d \in calls' : ReadOK(d)'
             \/ \E d \in calls' : calls' = {d} /\ SaveOK(d)'
      PROVE  Tracked'
  <2>1. AutomationCurrent => AutomationCurrent'
    BY <1>0, <1>1 DEF AutomationCurrent, InFlight
  <2>2. SettingsCurrent => SettingsCurrent'
    BY <1>0, <1>1 DEF SettingsCurrent, InFlight
  <2>3. PenaltyCurrent => PenaltyCurrent'
    BY <1>0, <1>1 DEF PenaltyCurrent, InFlight
  <2> QED
    BY <1>0, <1>1, <2>1, <2>2, <2>3 DEF Tracked
<1>2. \A d \in calls : IsCall(d) /\ d.heard /\ d.alone
  BY <1>0 DEF IInv, CallOK, Tracked
<1>3. ASSUME NEW c \in calls, Load(c) PROVE Tracked'
  <2>1. c.stage = "sent" /\ ~c.ok /\ file' = file
    BY <1>0, <1>3 DEF Load, Tracked, ReadOK, SaveOK
  <2> DEFINE refused == [c EXCEPT !.stage = "answered"]
             read    == [c EXCEPT !.seen = ReadBy(c), !.ok = TRUE, !.stage = "answered"]
             loaded  == [c EXCEPT !.seen = file, !.stage = "loaded"]
  <2>2. PICK d \in {refused, read, loaded} :
          /\ calls' = (calls \ {c}) \cup {d}
          /\ d = read => c.kind \in Gets
          /\ d = loaded => c.kind \notin Gets
    <3>1. c.heard /\ IsCall(c)
      BY <1>2
    <3> DEFINE no == ~c.valid \/ (file = Torn /\ c.kind \notin {"import", "getPenalty"})
    <3>2. CASE no
      <4>1. calls' = (calls \ {c}) \cup {refused}
        BY <1>3, <3>1, <3>2 DEF Load, Answered
      <4>2. refused # read /\ refused # loaded
        BY <2>1, <3>1 DEF IsCall, FieldsOfCalls
      <4> QED
        BY <4>1, <4>2
    <3>3. CASE ~no /\ c.kind \in Gets
      <4>1. calls' = (calls \ {c}) \cup {read}
        BY <1>3, <3>1, <3>3 DEF Load, Answered, IsCall, FieldsOfCalls
      <4>2. read # loaded
        BY <2>1, <3>1 DEF IsCall, FieldsOfCalls
      <4> QED
        BY <3>3, <4>1, <4>2
    <3>4. CASE ~no /\ c.kind \notin Gets
      <4>1. calls' = (calls \ {c}) \cup {loaded}
        BY <1>3, <3>4 DEF Load
      <4>2. read # loaded
        BY <2>1, <3>1 DEF IsCall, FieldsOfCalls
      <4> QED
        BY <3>4, <4>1, <4>2
    <3> QED
      BY <3>2, <3>3, <3>4
  <2>3. d.kind = c.kind /\ d.update = c.update /\ d.heard /\ d.alone /\ d.keeps = c.keeps
    BY <1>2 DEF IsCall, FieldsOfCalls
  <2>4. /\ d = refused => d.stage = "answered" /\ ~d.ok
        /\ d = read => d.stage = "answered" /\ d.seen = ReadBy(c)
        /\ d = loaded => d.stage = "loaded" /\ ~d.ok /\ d.seen = file
    BY <1>2, <2>1 DEF IsCall, FieldsOfCalls
  <2>5. CASE file = wanted /\ \A e \in calls : ReadOK(e)
    <3>1. ReadOK(d)'
      BY <1>0, <2>2, <2>3, <2>4, <2>5 DEF ReadOK, ReadBy
    <3>2. \A e \in calls : ReadOK(e)'
      BY <1>0, <2>5 DEF ReadOK
    <3> QED
      BY <1>0, <1>1, <1>2, <2>1, <2>2, <2>3, <2>5, <3>1, <3>2
  <2>6. CASE calls = {c} /\ SaveOK(c)
    <3>1. SaveOK(d)'
      BY <1>0, <2>1, <2>2, <2>3, <2>4, <2>6 DEF SaveOK, Outcome, Result
    <3> QED
      BY <1>1, <2>2, <2>3, <2>6, <3>1
  <2> QED
    BY <1>0, <2>5, <2>6 DEF Tracked
<1>4. ASSUME NEW c \in calls, Truncate(c) PROVE Tracked'
  <2> DEFINE d == [c EXCEPT !.stage = "truncated"]
  <2>1. calls = {c} /\ SaveOK(c) /\ calls' = {d} /\ ~c.ok
    BY <1>0, <1>4 DEF Truncate, Tracked, ReadOK, SaveOK
  <2>2. /\ d.kind = c.kind /\ d.heard /\ d.alone /\ d.ok = c.ok /\ d.stage = "truncated"
        /\ d.update = c.update /\ d.seen = c.seen /\ d.keeps = c.keeps
    BY <1>2 DEF IsCall, FieldsOfCalls
  <2>3. SaveOK(d)'
    BY <1>0, <1>4, <2>1, <2>2 DEF SaveOK, Truncate, Result
  <2> QED
    BY <1>1, <2>1, <2>2, <2>3
<1>5. ASSUME NEW c \in calls, Dump(c) PROVE Tracked'
  <2>1. calls = {c} /\ SaveOK(c) /\ ~c.ok /\ file' = wanted
    BY <1>0, <1>5 DEF Dump, Tracked, ReadOK, SaveOK
  <2>2. PICK ok \in BOOLEAN : calls' = {[[c EXCEPT !.ok = ok] EXCEPT !.stage = "answered"]}
    BY <1>2, <1>5, <2>1 DEF Dump, Answered
  <2> DEFINE d == [[c EXCEPT !.ok = ok] EXCEPT !.stage = "answered"]
  <2>3. /\ d.kind = c.kind /\ d.heard /\ d.alone /\ d.stage = "answered"
        /\ d.update = c.update /\ d.seen = c.seen /\ d.keeps = c.keeps
    BY <1>2 DEF IsCall, FieldsOfCalls
  <2>4. SaveOK(d)'
    BY <1>0, <1>5, <2>1, <2>3 DEF SaveOK, Dump, Result
  <2> QED
    BY <1>1, <2>1, <2>2, <2>3, <2>4
<1>6. CASE Crash
  <2> DEFINE End(c) == [c EXCEPT !.stage = "answered"]
  <2>1. calls' = {End(c) : c \in calls}
    BY <1>2, <1>6 DEF Crash, Answered
  <2>2. \A c \in calls : LET d == End(c) IN
          /\ d.kind = c.kind /\ d.heard /\ d.alone /\ d.ok = c.ok /\ d.stage = "answered"
          /\ d.update = c.update /\ d.seen = c.seen /\ d.keeps = c.keeps
    BY <1>2 DEF IsCall, FieldsOfCalls
  <2>3. file' = file
    BY <1>6 DEF Crash
  <2> HIDE DEF End
  <2>4. \A c \in calls : ReadOK(c) => ReadOK(End(c))'
    BY <1>0, <2>2 DEF ReadOK
  <2>5. \A c \in calls : SaveOK(c) => SaveOK(End(c))'
    BY <1>0, <2>2, <2>3 DEF SaveOK, Result
  <2>6. CASE file = wanted /\ \A c \in calls : ReadOK(c)
    BY <1>1, <2>1, <2>2, <2>3, <2>4, <2>6
  <2>7. ASSUME NEW c \in calls, calls = {c}, SaveOK(c) PROVE Tracked'
    <3>1. calls' = {End(c)} /\ SaveOK(End(c))'
      BY <2>1, <2>5, <2>7
    <3> QED
      BY <1>1, <2>1, <2>2, <3>1
  <2> QED
    BY <1>0, <2>6, <2>7 DEF Tracked
<1> QED
  BY <1>3, <1>4, <1>5, <1>6 DEF Serve

\* No control changes which are used, nor opens what another opens.
LEMMA NextOpened ==
  ASSUME OpenedByControls, [Next]_vars
  PROVE  OpenedByControls'
<1> DEFINE Kept == UNCHANGED <<part, confirming, editingWindowIndex, newWindowData>>
<1>0. Kept => OpenedByControls'
  BY DEF OpenedByControls
<1> USE DEF automationVars, windowVars, settingsVars
<1>1. CASE UserOfAutomation /\ UNCHANGED windowVars
  <2>1. ASSUME NEW f, NEW section, NEW risky, GuardedSwitch(f, section, risky)
        PROVE  OpenedByControls'
    BY <1>1, <2>1 DEF GuardedSwitch, Ask, Edit, OpenedByControls
  <2>2. ASSUME NEW p \in Presets, ApplyPreset(p) PROVE OpenedByControls'
    BY <1>1, <2>2 DEF ApplyPreset, OpenedByControls
  <2>3. CASE \/ CheckInterval \/ RuleNumbers \/ SafetyNumbers \/ RuleSwitches
             \/ SafetySwitches \/ RollbackDetection \/ Timezone \/ EditPresets
             \/ EditPresetValue \/ \E n \in Nodes : ToggleMaintenance(n)
    BY <1>0, <1>1, <2>3 DEF CheckInterval, RuleNumbers, SafetyNumbers, RuleSwitches,
       SafetySwitches, RollbackDetection, Timezone, EditPresets, EditPresetValue,
       ToggleMaintenance, Edit
  <2> QED
    BY <1>1, <2>1, <2>2, <2>3
       DEF UserOfAutomation, EnableAutomation, DryRun, AllowContainerRestarts
<1>2. CASE WindowActions
  <2>1. UNCHANGED <<part, confirming>>
    BY <1>2 DEF WindowActions, OpenFromTimeline, ToggleType, RenameWindow, ChangeDays,
       ChangeTimes, OpenEditor, RemoveWindow, OpenForm, CloseForm, FillNameAndType, FillDays,
       FillTimes, SaveWindow, Form, ChangeWindow, SaveWindows
  <2>2. CASE OpenFromTimeline \/ OpenEditor
    BY <2>1, <2>2 DEF OpenFromTimeline, OpenEditor, OpenedByControls
  <2>3. CASE ToggleType \/ SaveWindow
    BY <2>1, <2>3 DEF ToggleType, SaveWindow, OpenedByControls
  <2>4. CASE RenameWindow \/ ChangeDays \/ ChangeTimes \/ RemoveWindow
    BY <1>0, <2>1, <2>4 DEF RenameWindow, ChangeDays, ChangeTimes, ChangeWindow, RemoveWindow
  <2>5. CASE OpenForm
    <3>1. EmptyWindow \in NewWindows
      <4>1. (CHOOSE t \in Times : TRUE) \in Times
        BY NamesAndTimes
      <4>2. "" \in STRING /\ {} \in SUBSET Days /\ "migration_windows" \in Lists
        BY NamesAndTimes DEF Lists
      <4> QED
        BY <4>1, <4>2 DEF EmptyWindow, NewWindows
    <3> QED
      BY <2>1, <2>5, <3>1 DEF OpenForm, Form, OpenedByControls
  <2>6. CASE CloseForm
    BY <2>1, <2>6 DEF CloseForm, Form, OpenedByControls
  <2>7. CASE FillNameAndType \/ FillDays \/ FillTimes
    <3>1. newWindowData \in NewWindows /\ newWindowData' \in NewWindows /\ "add" \in part
      BY <2>7, NamesAndTimes
         DEF FillNameAndType, FillDays, FillTimes, Form, OpenedByControls, NewWindows
    <3>2. UNCHANGED editingWindowIndex
      BY <2>7 DEF FillNameAndType, FillDays, FillTimes, Form
    <3> QED
      BY <2>1, <3>1, <3>2 DEF OpenedByControls
  <2> QED
    BY <1>2, <2>2, <2>3, <2>4, <2>5, <2>6, <2>7 DEF WindowActions
<1>3. CASE (UserOfSettings \/ DistributionBalancing) /\ UNCHANGED windowVars
  <2>1. UNCHANGED <<part, confirming>>
    BY <1>3 DEF UserOfSettings, DistributionBalancing, EditProvider, EditModel, EditToken,
       SaveSettings, ApplyCollection, EditPenalty, SavePenaltyConfig, ResetPenaltyConfig,
       SavePenalty, ChangeHost, Import, Request, Fill
  <2> QED
    BY <1>0, <1>3, <2>1
<1>4. CASE Reload
  BY <1>4 DEF Reload, OpenedByControls
<1>5. CASE Answer
  BY <1>0, <1>5 DEF Answer, HearAutomation, HearConfig, HearSettings, HearCollection,
     HearPenalty, HearHost, HearImport
<1>6. CASE Serving \/ Failing \/ UNCHANGED vars
  BY <1>0, <1>6 DEF Serving, Failing, vars
<1> QED
  BY <1>1, <1>2, <1>3, <1>4, <1>5, <1>6 DEF Next

\* A step that does nothing to calls and copies.
LEMMA RestTracks ==
  ASSUME SettledInv, wanted' # Torn, UNCHANGED <<fileVars, automationConfig, part, reloadDue>>,
         CopiesKept
  PROVE  Tracked'
<1>1. Tracked /\ UNCHANGED <<file, calls, made, wanted>>
  BY DEF SettledInv, fileVars
<1>2. AutomationCurrent => AutomationCurrent'
  BY <1>1 DEF AutomationCurrent, InFlight
<1>3. SettingsCurrent => SettingsCurrent'
  BY <1>1 DEF SettingsCurrent, CopiesKept, InFlight
<1>5. "penalty" \notin typed' => "penalty" \notin typed /\ (PenaltyCurrent => PenaltyCurrent')
  BY <1>1 DEF PenaltyCurrent, CopiesKept, InFlight
<1>4. \A c \in calls : (ReadOK(c) => ReadOK(c)') /\ (SaveOK(c) => SaveOK(c)')
  BY <1>1 DEF ReadOK, SaveOK
<1> QED
  BY <1>1, <1>2, <1>3, <1>4, <1>5 DEF Tracked

\* What a control on the automation page may send along.
UsesCopy == part \ SettingsControls # {} /\ ~(part \subseteq {"import", "reliable"})

LEMMA ControlUsesCopy ==
  ASSUME part \cap AutomationControls # {}
  PROVE  UsesCopy
BY DEF UsesCopy, AutomationControls, SettingsControls

LEMMA CopyIsCurrent ==
  ASSUME ImportsStandAlone, OpenedByControls, Tracked, calls = {}, UsesCopy
  PROVE  ~reloadDue /\ automationConfig = [f \in AutomationFields |-> wanted[f]]
BY DEF ImportsStandAlone, OpenedByControls, Tracked, UsesCopy, AutomationCurrent, InFlight

LEMMA SaveAsTracks ==
  ASSUME ImportsStandAlone, OpenedByControls, SettledInv, wanted' # Torn,
         NEW section \in Sections, section = {} \/ UsesCopy,
         NEW change, NEW wish, SaveAs(section, change, wish),
         UNCHANGED <<automationConfig, part, reloadDue>>,
         calls = {} /\ wanted # Torn /\ Tracked =>
           /\ Merge(change, wanted) = Merge(wish, wanted)
           /\ WindowsOK(Merge(wish, wanted), made + 1),
         CopiesKept, DOMAIN wish \cap OtherFields = {}
  PROVE  Tracked'
<1> DEFINE sent == [f \in DOMAIN change \cup (section \cap DOMAIN automationConfig) |->
                      IF f \in DOMAIN change THEN change[f] ELSE automationConfig[f]]
           c    == Call("automation", sent, TRUE)
<1>1. Save(c, wish)
  BY DEF SaveAs
<1>2. /\ c.stage = "sent" /\ c.heard /\ c.alone /\ ~c.ok /\ c.kind = "automation"
      /\ c.update = sent
  BY DEF Call
<1>3. calls = {} /\ wanted # Torn /\ Tracked => Outcome(c, wanted) = Merge(wish, wanted)
  <2>1. SUFFICES ASSUME calls = {}, wanted # Torn, Tracked
                 PROVE  Outcome(c, wanted) = Merge(wish, wanted)
    OBVIOUS
  <2>2. section = {} \/ (part \ SettingsControls # {} /\ ~reloadDue)
    BY <2>1, CopyIsCurrent DEF UsesCopy
  <2>3. Merge(sent, wanted) = Merge(change, wanted)
    BY <2>1, <2>2, SectionIsCurrent
  <2> HIDE DEF sent, c
  <2> QED
    BY <1>2, <2>1, <2>3 DEF Outcome
<1> HIDE DEF sent, c
<1>4. c.kind \notin Gets /\ c.kind # "import"
  BY <1>2 DEF Gets
<1>5. DOMAIN wish \cap SettingsFields = {} /\ "penalty" \notin DOMAIN wish
      /\ \A f \in FormFields \cap DOMAIN wish : wish[f] = form[f]
  BY FieldsDiffer DEF OtherFields
<1> QED
  BY <1>1, <1>2, <1>3, <1>4, <1>5, SaveTracks

\* ... when it is neither list.
LEMMA EditTracks ==
  ASSUME ImportsStandAlone, OpenedByControls, SettledInv, wanted' # Torn,
         NEW section \in Sections, section = {} \/ UsesCopy,
         NEW change, SaveAutomationConfig(section, change),
         UNCHANGED <<automationConfig, part, reloadDue>>,
         CopiesKept, DOMAIN change \cap (OtherFields \cup Lists) = {}
  PROVE  Tracked'
<1>1. ASSUME Tracked PROVE WindowsOK(Merge(change, wanted), made + 1)
  <2>1. IsFile(wanted) /\ made \in Nat /\ WindowsOK(wanted, made) /\ Lists \subseteq Fields
    BY <1>1, FieldNames DEF Tracked
  <2>2. \A l \in Lists : Merge(change, wanted)[l] = wanted[l]
    BY <2>1, MergeFacts
  <2> QED
    BY <2>1, <2>2, SameWindows
<1>2. SaveAs(section, change, change)
  BY DEF SaveAutomationConfig
<1> QED
  BY <1>1, <1>2, SaveAsTracks

-----------------------------------------------------------------------------
(* The windows: what is sent by place is what is wanted of the window.     *)

\* Both pages of windows, as long as the page has the wanted file.
LEMMA WindowsShown ==
  ASSUME ImportsStandAlone, OpenedByControls, Tracked, wanted # Torn, calls = {}, UsesCopy
  PROVE  \A l \in Lists : /\ Shown(l) = wanted[l] /\ WantedIn(l) = wanted[l]
                          /\ wanted[l] \in Seq(Windows) /\ Distinct(wanted[l])
                          /\ wanted[l] = [i \in DOMAIN wanted[l] |-> wanted[l][i]]
                          /\ DOMAIN wanted[l] = 1..Len(wanted[l])
<1>1. automationConfig = [f \in AutomationFields |-> wanted[f]]
  BY CopyIsCurrent
<1>2. Lists \subseteq AutomationFields
  BY DEF Lists, AutomationFields, Schedule
<1> SUFFICES ASSUME NEW l \in Lists
             PROVE  /\ Shown(l) = wanted[l] /\ WantedIn(l) = wanted[l]
                    /\ wanted[l] \in Seq(Windows) /\ Distinct(wanted[l])
                    /\ wanted[l] = [i \in DOMAIN wanted[l] |-> wanted[l][i]]
                    /\ DOMAIN wanted[l] = 1..Len(wanted[l])
  OBVIOUS
<1>3. Shown(l) = wanted[l] /\ WantedIn(l) = wanted[l]
  BY <1>1, <1>2 DEF Shown, WantedIn
<1>4. wanted[l] \in Seq(Windows) /\ Distinct(wanted[l])
  BY DEF Tracked, WindowsOK
<1> QED
  BY <1>3, <1>4

\* A row is a place in one of the lists.
LEMMA RowsArePlaces ==
  ASSUME \A l \in Lists : Shown(l) \in Seq(Windows)
  PROVE  /\ \A row \in Range(AllWindows) : row[1] \in Lists /\ row[2] \in DOMAIN Shown(row[1])
         /\ \A row \in Edited : row[1] \in Lists /\ row[2] \in DOMAIN Shown(row[1])
<1>1. ASSUME NEW i \in DOMAIN AllWindows
      PROVE  /\ AllWindows[i][1] \in Lists
             /\ AllWindows[i][2] \in DOMAIN Shown(AllWindows[i][1])
  <2> DEFINE first  == Len(Shown("migration_windows"))
             second == Len(Shown("blackout_windows"))
  <2>1. /\ first \in Nat /\ DOMAIN Shown("migration_windows") = 1..first
        /\ second \in Nat /\ DOMAIN Shown("blackout_windows") = 1..second
    BY DEF Lists
  <2>2. AllWindows = [j \in 1..first + second |->
           IF j <= first THEN <<"migration_windows", j>> ELSE <<"blackout_windows", j - first>>]
    BY DEF AllWindows
  <2> HIDE DEF first, second
  <2>3. i \in 1..first + second
    BY <2>2
  <2>4. CASE i <= first
    <3>1. AllWindows[i] = <<"migration_windows", i>>
      BY <2>2, <2>3, <2>4
    <3> QED
      BY <2>1, <2>3, <2>4, <3>1 DEF Lists
  <2>5. CASE ~(i <= first)
    <3>1. AllWindows[i] = <<"blackout_windows", i - first>>
      BY <2>2, <2>3, <2>5
    <3>2. i - first \in 1..second
      BY <2>1, <2>3, <2>5
    <3> QED
      BY <2>1, <3>1, <3>2 DEF Lists
  <2> QED
    BY <2>4, <2>5
<1> QED
  BY <1>1 DEF Range, Edited

\* A list without one of its places.
LEMMA RemoveFacts ==
  ASSUME NEW s \in Seq(Windows), NEW i \in DOMAIN s, Distinct(s)
  PROVE  /\ RemoveAt(s, i) \in Seq(Windows) /\ Distinct(RemoveAt(s, i))
         /\ Ids(RemoveAt(s, i)) \subseteq Ids(s) \ {s[i].id}
<1> DEFINE t == RemoveAt(s, i)
           from(j) == IF j < i THEN j ELSE j + 1
<1>1. i \in 1..Len(s) /\ Len(s) \in Nat
  OBVIOUS
<1>2. /\ t \in Seq(Windows) /\ Len(t) = Len(s) - 1
      /\ \A j \in 1..(Len(s) - 1) : t[j] = s[from(j)]
  <2> DEFINE front == SubSeq(s, 1, i - 1)
             back  == SubSeq(s, i + 1, Len(s))
  <2>1. /\ front \in Seq(Windows) /\ Len(front) = i - 1
        /\ back \in Seq(Windows) /\ Len(back) = Len(s) - i
    BY <1>1
  <2>2. /\ \A j \in 1..(i - 1) : front[j] = s[j]
        /\ \A j \in 1..(Len(s) - i) : back[j] = s[i + j]
    BY <1>1
  <2>3. t = front \o back
    BY DEF RemoveAt
  <2> HIDE DEF t, front, back
  <2>4. t \in Seq(Windows) /\ Len(t) = Len(s) - 1
    BY <1>1, <2>1, <2>3
  <2>5. ASSUME NEW j \in 1..(Len(s) - 1) PROVE t[j] = s[from(j)]
    <3>1. CASE j < i
      BY <1>1, <2>1, <2>2, <2>3, <3>1
    <3>2. CASE ~(j < i)
      <4>1. j - (i - 1) \in 1..(Len(s) - i) /\ i + (j - (i - 1)) = j + 1
        BY <1>1, <3>2
      <4>2. t[j] = back[j - Len(front)]
        <5>1. j \in 1..(Len(front) + Len(back)) /\ ~(j <= Len(front))
          BY <1>1, <2>1, <3>2
        <5> QED
          BY <2>1, <2>3, <5>1
      <4> QED
        BY <2>1, <2>2, <3>2, <4>1, <4>2
    <3> QED
      BY <3>1, <3>2
  <2> QED
    BY <2>4, <2>5
<1> HIDE DEF t
<1>3. /\ DOMAIN t = 1..(Len(s) - 1) /\ DOMAIN s = 1..Len(s)
      /\ \A j \in DOMAIN t : from(j) \in DOMAIN s /\ from(j) # i /\ t[j] = s[from(j)]
  <2>1. DOMAIN t = 1..(Len(s) - 1) /\ DOMAIN s = 1..Len(s)
    BY <1>2
  <2>2. \A j \in 1..(Len(s) - 1) : from(j) \in 1..Len(s) /\ from(j) # i
    BY <1>1
  <2> QED
    BY <1>2, <2>1, <2>2
<1>4. Distinct(t)
  <2> SUFFICES ASSUME NEW j \in DOMAIN t, NEW k \in DOMAIN t, t[j].id = t[k].id
               PROVE  j = k
    BY DEF Distinct
  <2>1. from(j) = from(k)
    BY <1>3 DEF Distinct
  <2> QED
    BY <1>1, <1>3, <2>1
<1>5. Ids(t) \subseteq Ids(s) \ {s[i].id}
  BY <1>3 DEF Ids, Distinct
<1> QED
  BY <1>2, <1>4, <1>5 DEF t

\* A list with one more window.
LEMMA AppendFacts ==
  ASSUME NEW s \in Seq(Windows), Distinct(s), NEW w \in Windows, w.id \notin Ids(s)
  PROVE  /\ Append(s, w) \in Seq(Windows) /\ Distinct(Append(s, w))
         /\ Ids(Append(s, w)) = Ids(s) \cup {w.id}
<1> DEFINE t == Append(s, w)
<1>1. /\ t \in Seq(Windows) /\ DOMAIN s = 1..Len(s) /\ Len(s) \in Nat
      /\ DOMAIN t = 1..Len(s) + 1
      /\ t[Len(s) + 1] = w /\ \A i \in DOMAIN s : t[i] = s[i]
  OBVIOUS
<1> HIDE DEF t
<1>2. \A i \in DOMAIN t : i \in DOMAIN s \/ i = Len(s) + 1
  BY <1>1
<1>3. Ids(t) = Ids(s) \cup {w.id}
  BY <1>1, <1>2 DEF Ids
<1>4. Distinct(t)
  <2> SUFFICES ASSUME NEW i \in DOMAIN t, NEW j \in DOMAIN t, t[i].id = t[j].id
               PROVE  i = j
    BY DEF Distinct
  <2>1. \A k \in DOMAIN s : t[k].id \in Ids(s)
    BY <1>1 DEF Ids
  <2> QED
    BY <1>1, <1>2, <2>1 DEF Distinct
<1> QED
  BY <1>1, <1>3, <1>4 DEF t

\* The place of a window is where its identity is.
LEMMA WithoutFacts ==
  ASSUME \A l \in Lists : WantedIn(l) \in Seq(Windows) /\ Distinct(WantedIn(l))
  PROVE  /\ \A l \in Lists : \A i \in DOMAIN WantedIn(l) :
              Without(WantedIn(l)[i].id, l) = RemoveAt(WantedIn(l), i)
         /\ \A l \in Lists : \A id : id \notin Ids(WantedIn(l)) =>
              Without(id, l) = WantedIn(l)
<1>1. ASSUME NEW l \in Lists, NEW i \in DOMAIN WantedIn(l)
      PROVE  Without(WantedIn(l)[i].id, l) = RemoveAt(WantedIn(l), i)
  <2>1. {j \in DOMAIN WantedIn(l) : WantedIn(l)[j].id = WantedIn(l)[i].id} = {i}
    BY DEF Distinct
  <2> QED
    BY <2>1 DEF Without
<1>2. ASSUME NEW l \in Lists, NEW id, id \notin Ids(WantedIn(l))
      PROVE  Without(id, l) = WantedIn(l)
  <2>1. {j \in DOMAIN WantedIn(l) : WantedIn(l)[j].id = id} = {}
    BY <1>2 DEF Ids
  <2> QED
    BY <2>1 DEF Without
<1> QED
  BY <1>1, <1>2

\* The new lists, whether they are sent or wished for.
LEMMA WishedWindows ==
  ASSUME Tracked, NEW change, NEW wish, NEW new,
         DOMAIN change \subseteq Lists, DOMAIN wish \subseteq Lists,
         \A l \in Lists : /\ new[l] = IF l \in DOMAIN change THEN change[l] ELSE wanted[l]
                          /\ new[l] = IF l \in DOMAIN wish THEN wish[l] ELSE wanted[l]
                          /\ new[l] \in Seq(Windows) /\ Distinct(new[l])
                          /\ Ids(new[l]) \cap (made + 1 + 1..MaxSaves) = {},
         Ids(new["migration_windows"]) \cap Ids(new["blackout_windows"]) = {}
  PROVE  /\ Merge(change, wanted) = Merge(wish, wanted)
         /\ WindowsOK(Merge(wish, wanted), made + 1)
<1>1. IsFile(wanted)
  BY DEF Tracked
<1>2. Merge(change, wanted) = Merge(wish, wanted)
  <2>1. \A f \in Fields : (IF f \in DOMAIN change THEN change[f] ELSE wanted[f])
                          = (IF f \in DOMAIN wish THEN wish[f] ELSE wanted[f])
    OBVIOUS
  <2> QED
    BY <1>1, <2>1, SameMerge
<1>3. \A l \in Lists : Merge(wish, wanted)[l] = new[l]
  BY <1>1, FieldNames, MergeFacts
<1>4. "migration_windows" \in Lists /\ "blackout_windows" \in Lists
  BY DEF Lists
<1> QED
  BY <1>2, <1>3, <1>4 DEF WindowsOK

LEMMA SaveWindowsTracks ==
  ASSUME ImportsStandAlone, OpenedByControls, SettledInv, wanted' # Torn, UsesCopy,
         NEW change, NEW wish, SaveWindows(change, wish), UNCHANGED settingsVars,
         DOMAIN wish \subseteq Lists,
         calls = {} /\ wanted # Torn /\ Tracked =>
           /\ Merge(change, wanted) = Merge(wish, wanted)
           /\ WindowsOK(Merge(wish, wanted), made + 1)
  PROVE  Tracked'
<1>1. Schedule \in Sections /\ Lists \cap OtherFields = {}
  BY FieldNames, FieldsDiffer
<1>2. /\ SaveAs(Schedule, change, wish) /\ UNCHANGED <<automationConfig, part, reloadDue>>
      /\ CopiesKept
  BY SameCopies DEF SaveWindows, settingsVars
<1>3. DOMAIN wish \cap OtherFields = {}
  BY <1>1
<1> QED
  BY <1>1, <1>2, <1>3, SaveAsTracks

\* A window may have the value.
Fits(field, value) == \A w \in Windows : [w EXCEPT ![field] = value] \in Windows

\* A list in which the window with an identity, or at a place, has another value.
Changed(s, id, field, value) ==
    [i \in DOMAIN s |-> IF s[i].id = id THEN [s[i] EXCEPT ![field] = value] ELSE s[i]]
ChangedAt(s, k, field, value) == [s EXCEPT ![k] = [s[k] EXCEPT ![field] = value]]

LEMMA ChangeFacts ==
  ASSUME NEW s \in Seq(Windows), Distinct(s), NEW field \in {"name", "days", "times"}, NEW value,
         Fits(field, value),
         NEW id
  PROVE  LET t == Changed(s, id, field, value) IN
         /\ t \in Seq(Windows) /\ Distinct(t) /\ Ids(t) = Ids(s)
         /\ id \notin Ids(s) => t = s
         /\ \A k \in DOMAIN s : s[k].id = id => t = ChangedAt(s, k, field, value)
<1> DEFINE changed(v) == [v EXCEPT ![field] = value]
           t == Changed(s, id, field, value)
<1>1. \A v \in Windows : changed(v) \in Windows /\ changed(v).id = v.id
  BY DEF Windows, Fits
<1>2. t = [i \in DOMAIN s |-> IF s[i].id = id THEN changed(s[i]) ELSE s[i]]
  BY DEF Changed
<1>3. /\ DOMAIN s = 1..Len(s) /\ Len(s) \in Nat /\ \A i \in DOMAIN s : s[i] \in Windows
      /\ s = [i \in DOMAIN s |-> s[i]]
  OBVIOUS
<1> HIDE DEF changed, t
<1>4. DOMAIN t = DOMAIN s /\ \A i \in DOMAIN s : t[i] \in Windows /\ t[i].id = s[i].id
  <2>1. DOMAIN t = DOMAIN s
    BY <1>2
  <2>2. ASSUME NEW i \in DOMAIN s PROVE t[i] \in Windows /\ t[i].id = s[i].id
    <3>1. t[i] = IF s[i].id = id THEN changed(s[i]) ELSE s[i]
      BY <1>2
    <3> QED
      BY <1>1, <1>3, <3>1
  <2> QED
    BY <2>1, <2>2
<1>5. t \in Seq(Windows)
  <2>1. t = [i \in 1..Len(s) |-> t[i]]
    BY <1>2, <1>3
  <2>2. t \in [1..Len(s) -> Windows]
    BY <1>3, <1>4, <2>1
  <2> QED
    BY <1>3, <2>2
<1>6. Distinct(t) /\ Ids(t) = Ids(s)
  BY <1>4 DEF Distinct, Ids
<1>7. ASSUME id \notin Ids(s) PROVE t = s
  <2>1. \A i \in DOMAIN s : s[i].id # id
    BY <1>7 DEF Ids
  <2> QED
    BY <1>2, <1>3, <2>1
<1>8. ASSUME NEW k \in DOMAIN s, s[k].id = id PROVE t = [s EXCEPT ![k] = changed(s[k])]
  <2>1. \A i \in DOMAIN s : s[i].id = id <=> i = k
    BY <1>8 DEF Distinct
  <2>2. t = [i \in DOMAIN s |-> IF i = k THEN changed(s[k]) ELSE s[i]]
    BY <1>2, <2>1
  <2> QED
    BY <2>2
<1> QED
  BY <1>5, <1>6, <1>7, <1>8 DEF changed, t, ChangedAt

\* One value of the window that the row shows.
LEMMA ChangeWindowTracks ==
  ASSUME ImportsStandAlone, OpenedByControls, SettledInv, wanted' # Torn, UsesCopy,
         NEW row \in Edited, NEW field \in {"name", "days", "times"}, NEW value,
         calls = {} /\ wanted # Torn /\ Tracked => Fits(field, value),
         ChangeWindow(row, field, value), UNCHANGED settingsVars
  PROVE  Tracked'
<1> DEFINE w == WindowIn(row)
           change == Change(row[1], [Shown(row[1]) EXCEPT ![row[2]] = [w EXCEPT ![field] = value]])
           wish == [l \in Lists |-> [i \in DOMAIN WantedIn(l) |->
                      IF WantedIn(l)[i].id = w.id THEN [WantedIn(l)[i] EXCEPT ![field] = value]
                      ELSE WantedIn(l)[i]]]
<1>1. SaveWindows(change, wish)
  BY DEF ChangeWindow
<1>2. DOMAIN wish = Lists
  OBVIOUS
<1>3. ASSUME calls = {}, wanted # Torn, Tracked
      PROVE  /\ Merge(change, wanted) = Merge(wish, wanted)
             /\ WindowsOK(Merge(wish, wanted), made + 1)
  <2>1. \A l \in Lists : /\ Shown(l) = wanted[l] /\ WantedIn(l) = wanted[l]
                         /\ wanted[l] \in Seq(Windows) /\ Distinct(wanted[l])
    BY <1>3, WindowsShown
  <2>2. row[1] \in Lists /\ row[2] \in DOMAIN wanted[row[1]] /\ w = wanted[row[1]][row[2]]
    BY <2>1, RowsArePlaces DEF WindowIn
  <2>3. WindowsOK(wanted, made) /\ made \in Nat
    BY <1>3 DEF Tracked
  <2>4. ASSUME NEW l \in Lists
        PROVE  /\ wish[l] \in Seq(Windows) /\ Distinct(wish[l]) /\ Ids(wish[l]) = Ids(wanted[l])
               /\ w.id \notin Ids(wanted[l]) => wish[l] = wanted[l]
               /\ \A k \in DOMAIN wanted[l] : wanted[l][k].id = w.id =>
                    wish[l] = ChangedAt(wanted[l], k, field, value)
    <3>1. wanted[l] \in Seq(Windows) /\ Distinct(wanted[l])
      BY <2>1
    <3>2. wish[l] = Changed(wanted[l], w.id, field, value)
      BY <2>1 DEF Changed
    <3> HIDE DEF wish, w
    <3> QED
      BY <1>3, <3>1, <3>2, ChangeFacts
  <2>5. /\ DOMAIN change = {row[1]}
        /\ change[row[1]] = ChangedAt(wanted[row[1]], row[2], field, value)
    <3> DEFINE list == [Shown(row[1]) EXCEPT ![row[2]] = [w EXCEPT ![field] = value]]
    <3>1. list = ChangedAt(wanted[row[1]], row[2], field, value)
      BY <2>1, <2>2 DEF ChangedAt
    <3> HIDE DEF list
    <3> QED
      BY <3>1, OneField DEF list
  <2> HIDE DEF change, wish
  <2>6. ASSUME NEW l \in Lists
        PROVE  wish[l] = IF l \in DOMAIN change THEN change[l] ELSE wanted[l]
    <3>1. CASE l = row[1]
      <4>1. wish[l] = ChangedAt(wanted[l], row[2], field, value)
        BY <2>2, <2>4, <3>1
      <4> QED
        BY <2>5, <3>1, <4>1
    <3>2. CASE l # row[1]
      <4>1. w.id \in Ids(wanted[row[1]])
        BY <2>2 DEF Ids
      <4>2. w.id \notin Ids(wanted[l])
        BY <2>2, <2>3, <3>2, <4>1 DEF WindowsOK, Lists
      <4> QED
        BY <2>4, <2>5, <3>2, <4>2
    <3> QED
      BY <3>1, <3>2
  <2>7. \A l \in Lists : Ids(wish[l]) \cap (made + 1 + 1..MaxSaves) = {}
    <3>1. made + 1 + 1..MaxSaves \subseteq made + 1..MaxSaves
      BY <2>3, BoundsAssumption
    <3> QED
      BY <2>3, <2>4, <3>1 DEF WindowsOK
  <2>8. Ids(wish["migration_windows"]) \cap Ids(wish["blackout_windows"]) = {}
    BY <2>3, <2>4 DEF WindowsOK, Lists
  <2>9. DOMAIN change \subseteq Lists /\ DOMAIN wish = Lists
    BY <1>2, <2>2, <2>5 DEF wish
  <2>10. \A l \in Lists : /\ wish[l] = IF l \in DOMAIN change THEN change[l] ELSE wanted[l]
                          /\ wish[l] = IF l \in DOMAIN wish THEN wish[l] ELSE wanted[l]
                          /\ wish[l] \in Seq(Windows) /\ Distinct(wish[l])
                          /\ Ids(wish[l]) \cap (made + 1 + 1..MaxSaves) = {}
    BY <2>4, <2>6, <2>7, <2>9
  <2> HIDE DEF w
  <2> QED
    BY <1>3, <2>8, <2>9, <2>10, WishedWindows
<1> HIDE DEF change, wish
<1> QED
  BY <1>1, <1>2, <1>3, SaveWindowsTracks

\* The window at a row leaves its list, and goes to the end of the other or nowhere.
LEMMA RemovedWindows ==
  ASSUME ImportsStandAlone, OpenedByControls, Tracked, wanted # Torn, calls = {}, UsesCopy,
         NEW row, row[1] \in Lists, row[2] \in DOMAIN Shown(row[1])
  PROVE  LET w == WindowIn(row)
             s == wanted[row[1]]
         IN  /\ w \in Windows /\ w.id \in Ids(s) /\ w = s[row[2]]
             /\ Shown(row[1]) = s /\ row[2] \in DOMAIN s
             /\ Without(w.id, row[1]) = RemoveAt(s, row[2])
             /\ RemoveAt(s, row[2]) \in Seq(Windows) /\ Distinct(RemoveAt(s, row[2]))
             /\ Ids(RemoveAt(s, row[2])) \subseteq Ids(s) \ {w.id}
             /\ \A l \in Lists \ {row[1]} :
                  /\ Shown(l) = wanted[l] /\ Without(w.id, l) = wanted[l]
                  /\ wanted[l] \in Seq(Windows) /\ Distinct(wanted[l])
                  /\ w.id \notin Ids(wanted[l])
<1> DEFINE w == WindowIn(row)
           s == wanted[row[1]]
<1>1. \A l \in Lists : /\ Shown(l) = wanted[l] /\ WantedIn(l) = wanted[l]
                       /\ wanted[l] \in Seq(Windows) /\ Distinct(wanted[l])
  BY WindowsShown
<1>2. /\ row[2] \in DOMAIN s /\ w = s[row[2]] /\ s \in Seq(Windows) /\ Distinct(s)
      /\ Shown(row[1]) = s
  BY <1>1 DEF WindowIn
<1>3. w \in Windows /\ w.id \in Ids(s)
  BY <1>2 DEF Ids
<1>4. Without(w.id, row[1]) = RemoveAt(s, row[2])
  BY <1>1, <1>2, WithoutFacts
<1>5. /\ RemoveAt(s, row[2]) \in Seq(Windows) /\ Distinct(RemoveAt(s, row[2]))
      /\ Ids(RemoveAt(s, row[2])) \subseteq Ids(s) \ {w.id}
  BY <1>2, RemoveFacts
<1>6. \A l \in Lists \ {row[1]} : w.id \notin Ids(wanted[l])
  BY <1>3 DEF Tracked, WindowsOK, Lists
<1>7. \A l \in Lists \ {row[1]} : Without(w.id, l) = wanted[l]
  BY <1>1, <1>6, WithoutFacts
<1> HIDE DEF w, s
<1> QED
  BY <1>1, <1>2, <1>3, <1>4, <1>5, <1>6, <1>7 DEF w, s

LEMMA ToggleTypeTracks ==
  ASSUME ImportsStandAlone, OpenedByControls, SettledInv, wanted' # Torn, UsesCopy,
         UNCHANGED settingsVars, NEW row \in Edited,
         SaveWindows([l \in Lists |-> IF l = row[1] THEN RemoveAt(Shown(l), row[2])
                                      ELSE Append(Shown(l), WindowIn(row))],
                     [l \in Lists |-> IF l = row[1] THEN Without(WindowIn(row).id, l)
                                      ELSE Append(Without(WindowIn(row).id, l), WindowIn(row))])
  PROVE  Tracked'
<1> DEFINE w == WindowIn(row)
           change == [l \in Lists |-> IF l = row[1] THEN RemoveAt(Shown(l), row[2])
                                      ELSE Append(Shown(l), w)]
           wish == [l \in Lists |-> IF l = row[1] THEN Without(w.id, l)
                                    ELSE Append(Without(w.id, l), w)]
<1>1. ASSUME calls = {}, wanted # Torn, Tracked
      PROVE  /\ Merge(change, wanted) = Merge(wish, wanted)
             /\ WindowsOK(Merge(wish, wanted), made + 1)
  <2>1. WindowsOK(wanted, made) /\ made \in Nat
    BY <1>1 DEF Tracked
  <2>2. row[1] \in Lists /\ row[2] \in DOMAIN Shown(row[1])
    <3>1. \A l \in Lists : Shown(l) \in Seq(Windows)
      BY <1>1, WindowsShown
    <3> QED
      BY <3>1, RowsArePlaces
  <2>3. /\ w \in Windows /\ w.id \in Ids(wanted[row[1]]) /\ Shown(row[1]) = wanted[row[1]]
        /\ Without(w.id, row[1]) = RemoveAt(wanted[row[1]], row[2])
        /\ RemoveAt(wanted[row[1]], row[2]) \in Seq(Windows)
        /\ Distinct(RemoveAt(wanted[row[1]], row[2]))
        /\ Ids(RemoveAt(wanted[row[1]], row[2])) \subseteq Ids(wanted[row[1]]) \ {w.id}
        /\ \A l \in Lists \ {row[1]} :
             /\ Shown(l) = wanted[l] /\ Without(w.id, l) = wanted[l]
             /\ wanted[l] \in Seq(Windows) /\ Distinct(wanted[l])
             /\ w.id \notin Ids(wanted[l])
    BY <1>1, <2>2, RemovedWindows
  <2> HIDE DEF w
  <2>4. DOMAIN change = Lists /\ DOMAIN wish = Lists
    OBVIOUS
  <2>5. ASSUME NEW l \in Lists
        PROVE  /\ change[l] = wish[l] /\ wish[l] \in Seq(Windows) /\ Distinct(wish[l])
               /\ l = row[1] => Ids(wish[l]) \subseteq Ids(wanted[l]) \ {w.id}
               /\ l # row[1] => Ids(wish[l]) = Ids(wanted[l]) \cup {w.id}
    <3>1. CASE l = row[1]
      BY <2>3, <3>1
    <3>2. CASE l # row[1]
      <4>1. change[l] = Append(wanted[l], w) /\ wish[l] = Append(wanted[l], w)
        BY <2>3, <3>2
      <4>2. /\ wanted[l] \in Seq(Windows) /\ Distinct(wanted[l]) /\ w.id \notin Ids(wanted[l])
            /\ w \in Windows
        BY <2>3, <3>2
      <4> HIDE DEF wish, change
      <4> QED
        BY <3>2, <4>1, <4>2, AppendFacts
    <3> QED
      BY <3>1, <3>2
  <2> HIDE DEF wish, change
  <2>6. /\ Ids(wish["migration_windows"]) \cap Ids(wish["blackout_windows"]) = {}
        /\ \A l \in Lists : Ids(wish[l]) \cap (made + 1..MaxSaves) = {}
    BY <2>1, <2>2, <2>3, <2>5 DEF WindowsOK, Lists
  <2>7. made + 1 + 1..MaxSaves \subseteq made + 1..MaxSaves
    BY <2>1, BoundsAssumption
  <2>8. \A l \in Lists : /\ wish[l] = IF l \in DOMAIN change THEN change[l] ELSE wanted[l]
                         /\ wish[l] = IF l \in DOMAIN wish THEN wish[l] ELSE wanted[l]
                         /\ wish[l] \in Seq(Windows) /\ Distinct(wish[l])
                         /\ Ids(wish[l]) \cap (made + 1 + 1..MaxSaves) = {}
    BY <2>4, <2>5, <2>6, <2>7
  <2> QED
    BY <1>1, <2>4, <2>6, <2>8, WishedWindows
<1>2. SaveWindows(change, wish) /\ DOMAIN wish = Lists
  OBVIOUS
<1> HIDE DEF change, wish
<1> QED
  BY <1>1, <1>2, SaveWindowsTracks

LEMMA RemoveWindowTracks ==
  ASSUME ImportsStandAlone, OpenedByControls, SettledInv, wanted' # Torn, UsesCopy,
         UNCHANGED settingsVars, NEW row \in Range(AllWindows),
         SaveWindows(Change(row[1], RemoveAt(Shown(row[1]), row[2])),
                     [l \in Lists |-> Without(WindowIn(row).id, l)])
  PROVE  Tracked'
<1> DEFINE w == WindowIn(row)
           change == Change(row[1], RemoveAt(Shown(row[1]), row[2]))
           wish == [l \in Lists |-> Without(w.id, l)]
<1>1. ASSUME calls = {}, wanted # Torn, Tracked
      PROVE  /\ Merge(change, wanted) = Merge(wish, wanted)
             /\ WindowsOK(Merge(wish, wanted), made + 1)
  <2>1. WindowsOK(wanted, made) /\ made \in Nat
    BY <1>1 DEF Tracked
  <2>2. row[1] \in Lists /\ row[2] \in DOMAIN Shown(row[1])
    <3>1. \A l \in Lists : Shown(l) \in Seq(Windows)
      BY <1>1, WindowsShown
    <3> QED
      BY <3>1, RowsArePlaces
  <2>3. /\ Shown(row[1]) = wanted[row[1]]
        /\ Without(w.id, row[1]) = RemoveAt(wanted[row[1]], row[2])
        /\ RemoveAt(wanted[row[1]], row[2]) \in Seq(Windows)
        /\ Distinct(RemoveAt(wanted[row[1]], row[2]))
        /\ Ids(RemoveAt(wanted[row[1]], row[2])) \subseteq Ids(wanted[row[1]])
        /\ \A l \in Lists \ {row[1]} :
             /\ Without(w.id, l) = wanted[l]
             /\ wanted[l] \in Seq(Windows) /\ Distinct(wanted[l])
    BY <1>1, <2>2, RemovedWindows
  <2>4. /\ DOMAIN wish = Lists
        /\ DOMAIN change = {row[1]} /\ change[row[1]] = RemoveAt(Shown(row[1]), row[2])
    BY OneField
  <2>5. ASSUME NEW l \in Lists
        PROVE  /\ wish[l] = IF l \in DOMAIN change THEN change[l] ELSE wanted[l]
               /\ wish[l] = IF l \in DOMAIN wish THEN wish[l] ELSE wanted[l]
               /\ wish[l] \in Seq(Windows) /\ Distinct(wish[l])
               /\ Ids(wish[l]) \subseteq Ids(wanted[l])
    <3>1. wish[l] = Without(w.id, l)
      OBVIOUS
    <3> HIDE DEF wish, change, w
    <3>2. CASE l = row[1]
      BY <2>3, <2>4, <3>1, <3>2
    <3>3. CASE l # row[1]
      BY <2>3, <2>4, <3>1, <3>3
    <3> QED
      BY <3>2, <3>3
  <2> HIDE DEF wish, change
  <2>6. /\ Ids(wish["migration_windows"]) \cap Ids(wish["blackout_windows"]) = {}
        /\ \A l \in Lists : Ids(wish[l]) \cap (made + 1..MaxSaves) = {}
    BY <2>1, <2>5 DEF WindowsOK, Lists
  <2>7. made + 1 + 1..MaxSaves \subseteq made + 1..MaxSaves
    BY <2>1, BoundsAssumption
  <2>8. \A l \in Lists : Ids(wish[l]) \cap (made + 1 + 1..MaxSaves) = {}
    BY <2>6, <2>7
  <2>9. DOMAIN change \subseteq Lists /\ DOMAIN wish \subseteq Lists
    BY <2>2, <2>4
  <2> QED
    BY <1>1, <2>5, <2>6, <2>8, <2>9, WishedWindows
<1>2. SaveWindows(change, wish) /\ DOMAIN wish = Lists
  OBVIOUS
<1> HIDE DEF change, wish
<1> QED
  BY <1>1, <1>2, SaveWindowsTracks

\* A new window.
LEMMA SaveWindowTracks ==
  ASSUME ImportsStandAlone, OpenedByControls, SettledInv, wanted' # Torn,
         SaveWindow, UNCHANGED settingsVars
  PROVE  Tracked'
<1> DEFINE k == newWindowData.type
           w == Window(made + 1, newWindowData)
           change == Change(k, Append(Shown(k), w))
           wish == Change(k, Append(WantedIn(k), w))
<1>1. newWindowData \in NewWindows /\ UsesCopy
  <2>1. newWindowData \in NewWindows /\ "add" \in part
    BY DEF OpenedByControls, SaveWindow
  <2> QED
    BY <2>1, ControlUsesCopy DEF AutomationControls
<1>2. k \in Lists
  BY <1>1 DEF NewWindows
<1>3. ASSUME calls = {}, wanted # Torn, Tracked
      PROVE  /\ Merge(change, wanted) = Merge(wish, wanted)
             /\ WindowsOK(Merge(wish, wanted), made + 1)
  <2>1. WindowsOK(wanted, made) /\ made \in Nat
    BY <1>3 DEF Tracked
  <2>2. \A l \in Lists : /\ Shown(l) = wanted[l] /\ WantedIn(l) = wanted[l]
                         /\ wanted[l] \in Seq(Windows) /\ Distinct(wanted[l])
    BY <1>1, <1>3, WindowsShown
  <2>3. w \in Windows /\ w.id = made + 1
    BY <1>1, <2>1 DEF NewWindows, Windows, Window
  <2>4. made + 1 \in made + 1..MaxSaves
    <3>1. made < MaxSaves
      BY DEF SaveWindow, SaveWindows, SaveAs, Save
    <3> QED
      BY <2>1, <3>1, BoundsAssumption
  <2>5. \A l \in Lists : w.id \notin Ids(wanted[l])
    BY <2>1, <2>3, <2>4 DEF WindowsOK
  <2> HIDE DEF w, k
  <2> DEFINE new == [l \in Lists |-> IF l = k THEN Append(wanted[l], w) ELSE wanted[l]]
  <2>6. /\ DOMAIN change = {k} /\ change[k] = Append(wanted[k], w)
        /\ DOMAIN wish = {k} /\ wish[k] = Append(wanted[k], w)
    BY <1>2, <2>2, OneField
  <2>7. ASSUME NEW l \in Lists
        PROVE  /\ new[l] \in Seq(Windows) /\ Distinct(new[l])
               /\ Ids(new[l]) = Ids(wanted[l]) \cup (IF l = k THEN {w.id} ELSE {})
    <3>1. wanted[l] \in Seq(Windows) /\ Distinct(wanted[l]) /\ w.id \notin Ids(wanted[l])
      BY <2>2, <2>5
    <3>2. CASE l = k
      <4>1. new[l] = Append(wanted[l], w)
        BY <3>2
      <4> HIDE DEF new
      <4> QED
        BY <2>3, <3>1, <3>2, <4>1, AppendFacts
    <3>3. CASE l # k
      BY <3>1, <3>3
    <3> QED
      BY <3>2, <3>3
  <2>8. \A l \in Lists : /\ new[l] = IF l \in DOMAIN change THEN change[l] ELSE wanted[l]
                         /\ new[l] = IF l \in DOMAIN wish THEN wish[l] ELSE wanted[l]
    BY <2>6
  <2> HIDE DEF new, change, wish
  <2>9. Ids(new["migration_windows"]) \cap Ids(new["blackout_windows"]) = {}
    BY <2>1, <2>5, <2>7 DEF WindowsOK, Lists
  <2>10. \A l \in Lists : Ids(new[l]) \cap (made + 1 + 1..MaxSaves) = {}
    <3>1. made + 1 + 1..MaxSaves \subseteq made + 1..MaxSaves
          /\ made + 1 \notin made + 1 + 1..MaxSaves
      BY <2>1, BoundsAssumption
    <3> QED
      BY <2>1, <2>3, <2>7, <3>1 DEF WindowsOK
  <2> QED
    BY <1>2, <1>3, <2>6, <2>7, <2>8, <2>9, <2>10, WishedWindows
<1>4. SaveWindows(change, wish) /\ DOMAIN wish = {k}
  BY OneField DEF SaveWindow
<1> HIDE DEF change, wish, k
<1> QED
  BY <1>1, <1>2, <1>3, <1>4, SaveWindowsTracks

LEMMA WindowActionsTrack ==
  ASSUME ImportsStandAlone, OpenedByControls, SettledInv, wanted' # Torn,
         WindowActions, UNCHANGED settingsVars
  PROVE  Tracked'
<1>0. CopiesKept /\ UNCHANGED reloadDue
  BY SameCopies DEF settingsVars
<1>1. ASSUME NEW row \in Edited PROVE UsesCopy
  <2>1. editingWindowIndex # Null
    BY DEF Edited
  <2> QED
    BY <2>1, ControlUsesCopy DEF OpenedByControls, AutomationControls
<1>2. CASE OpenFromTimeline \/ OpenEditor
  BY <1>0, <1>2, RestTracks DEF OpenFromTimeline, OpenEditor, automationVars
<1>3. CASE ToggleType
  BY <1>1, <1>3, ToggleTypeTracks DEF ToggleType
<1>4. CASE RenameWindow
  <2>1. \A n \in Names \cup {""} : Fits("name", n)
    BY NamesAndTimes DEF Fits, Windows
  <2> QED
    BY <1>1, <1>4, <2>1, ChangeWindowTracks DEF RenameWindow
<1>5. CASE ChangeTimes
  <2>1. \A t \in Times : Fits("times", t)
    BY DEF Fits, Windows
  <2> QED
    BY <1>1, <1>5, <2>1, ChangeWindowTracks DEF ChangeTimes
<1>6. CASE ChangeDays
  <2>1. \A days \in SUBSET Days : Fits("days", days)
    BY DEF Fits, Windows
  <2>2. PICK row \in Edited :
          \E days : /\ ChangeWindow(row, "days", days)
                    /\ WindowIn(row).days \in SUBSET Days => days \in SUBSET Days
    BY <1>6 DEF ChangeDays
  <2>3. PICK days : /\ ChangeWindow(row, "days", days)
                    /\ WindowIn(row).days \in SUBSET Days => days \in SUBSET Days
    BY <2>2
  <2>4. ASSUME calls = {}, wanted # Torn, Tracked PROVE Fits("days", days)
    <3>1. \A l \in Lists : Shown(l) \in Seq(Windows)
      BY <1>1, <2>4, WindowsShown
    <3>2. WindowIn(row) \in Windows
      BY <3>1, RowsArePlaces DEF WindowIn
    <3> QED
      BY <2>1, <2>3, <3>2 DEF Windows
  <2> QED
    BY <1>1, <2>3, <2>4, ChangeWindowTracks
<1>7. CASE RemoveWindow
  <2>1. PICK row \in Range(AllWindows) :
          IF confirmRemoveWindow = row
          THEN SaveWindows(Change(row[1], RemoveAt(Shown(row[1]), row[2])),
                           [l \in Lists |-> Without(WindowIn(row).id, l)])
          ELSE UNCHANGED <<automationVars, fileVars>>
    BY <1>7 DEF RemoveWindow
  <2>2. UsesCopy
    BY <1>7, ControlUsesCopy DEF RemoveWindow, AutomationControls
  <2>3. CASE confirmRemoveWindow = row
    BY <2>1, <2>2, <2>3, RemoveWindowTracks
  <2>4. CASE confirmRemoveWindow # row
    BY <1>0, <2>1, <2>4, RestTracks DEF automationVars
  <2> QED
    BY <2>3, <2>4
<1>8. CASE OpenForm \/ CloseForm \/ FillNameAndType \/ FillDays \/ FillTimes
  BY <1>0, <1>8, RestTracks
     DEF OpenForm, CloseForm, FillNameAndType, FillDays, FillTimes, Form, automationVars
<1>9. CASE SaveWindow
  BY <1>9, SaveWindowTracks
<1> QED
  BY <1>2, <1>3, <1>4, <1>5, <1>6, <1>7, <1>8, <1>9 DEF WindowActions

-----------------------------------------------------------------------------
(* The other controls, the answers and a new page.                         *)

\* One value or another of the automation page.
LEMMA OneEditTracks ==
  ASSUME ImportsStandAlone, OpenedByControls, SettledInv, wanted' # Torn,
         NEW control \in AutomationControls, NEW section \in Sections,
         NEW f \in AutomationFields \ Lists, NEW v,
         Edit(control, section, Change(f, v)), UNCHANGED settingsVars
  PROVE  Tracked'
<1>1. DOMAIN Change(f, v) = {f} /\ AutomationFields \cap OtherFields = {}
  BY OneField, FieldsDiffer
<1>2. UsesCopy
  BY ControlUsesCopy DEF Edit
<1>3. /\ SaveAutomationConfig(section, Change(f, v))
      /\ CopiesKept /\ UNCHANGED <<automationConfig, part, reloadDue>>
  BY SameCopies DEF Edit, settingsVars
<1>4. DOMAIN Change(f, v) \cap (OtherFields \cup Lists) = {}
  BY <1>1
<1> QED
  BY <1>2, <1>3, <1>4, EditTracks

LEMMA GuardedSwitchTracks ==
  ASSUME ImportsStandAlone, OpenedByControls, SettledInv, wanted' # Torn,
         NEW f \in Risks, NEW section \in {{}, Rules}, section = {} \/ f = "restarts",
         NEW risky, GuardedSwitch(f, section, risky), UNCHANGED settingsVars
  PROVE  Tracked'
<1>1. /\ f \in AutomationFields \ Lists /\ f \in AutomationControls
      /\ section \in Sections /\ AutomationFields \cap OtherFields = {}
  BY FieldNames, FieldsDiffer DEF Risks, AutomationFields, AutomationControls, Lists, Rules
<1>6. CopiesKept
  BY SameCopies
<1>2. CASE Ask(f)
  BY <1>2, <1>6, RestTracks DEF Ask, settingsVars
<1>3. CASE /\ f \in confirming
           /\ SaveAutomationConfig(section, Change(f, risky))
           /\ UNCHANGED <<automationConfig, part>>
  <2>1. UsesCopy
    <3>1. f \in part \/ "presets" \in part
      BY <1>3 DEF OpenedByControls
    <3> QED
      BY <1>1, <3>1, ControlUsesCopy DEF AutomationControls
  <2>2. DOMAIN Change(f, risky) = {f}
    BY OneField
  <2>3. DOMAIN Change(f, risky) \cap (OtherFields \cup Lists) = {}
    BY <1>1, <2>2
  <2> QED
    BY <1>1, <1>3, <1>6, <2>1, <2>3, EditTracks DEF settingsVars
<1>4. CASE UNCHANGED <<fileVars, automationConfig, part>>
  BY <1>4, <1>6, RestTracks DEF settingsVars
<1>5. CASE Edit(f, section, Change(f, ~risky))
  BY <1>1, <1>5, OneEditTracks
<1> QED
  BY <1>2, <1>3, <1>4, <1>5 DEF GuardedSwitch

LEMMA AutomationTracks ==
  ASSUME ImportsStandAlone, OpenedByControls, SettledInv, wanted' # Torn,
         UserOfAutomation, UNCHANGED settingsVars
  PROVE  Tracked'
<1>0. /\ {} \in Sections /\ Rules \in Sections /\ Safety \in Sections /\ Schedule \in Sections
      /\ {"interval", "limit", "max_cpu", "ignore_tags", "pause", "rollback", "rollback_hours",
          "timezone", "presets", "maintenance"} \subseteq AutomationFields \ Lists
      /\ {"interval", "limit", "max_cpu", "ignore_tags", "pause", "rollback",
          "timezone", "presets", "maintenance"} \subseteq AutomationControls
      /\ AutomationFields \cap OtherFields = {}
      /\ CopiesKept
  BY FieldNames, FieldsDiffer, SameCopies
     DEF AutomationFields, AutomationControls, Rules, Safety, Schedule, Balance, Lists
<1>1. CASE EnableAutomation \/ DryRun \/ AllowContainerRestarts
  BY <1>1, GuardedSwitchTracks DEF EnableAutomation, DryRun, AllowContainerRestarts, Risks
<1>2. CASE \/ CheckInterval \/ RuleNumbers \/ SafetyNumbers \/ RuleSwitches
           \/ SafetySwitches \/ Timezone
  BY <1>0, <1>2, OneEditTracks DEF CheckInterval, RuleNumbers, SafetyNumbers, RuleSwitches,
     SafetySwitches, Timezone
<1>3. CASE RollbackDetection \/ EditPresetValue
  BY <1>0, <1>3, OneEditTracks DEF RollbackDetection, EditPresetValue
<1>4. CASE EditPresets
  BY <1>0, <1>4, RestTracks DEF EditPresets, settingsVars
<1>5. ASSUME NEW p \in Presets, ApplyPreset(p) PROVE Tracked'
  <2> DEFINE change == [f \in {"interval", "limit"} |-> Shown("presets")[p]]
  <2>1. UsesCopy
    BY <1>0, <1>5, ControlUsesCopy DEF ApplyPreset
  <2>2. DOMAIN change \cap (OtherFields \cup Lists) = {}
    BY <1>0
  <2>3. CASE p \in confirming
    <3>1. SaveAutomationConfig(Rules, change) /\ UNCHANGED <<automationConfig, part>>
      BY <1>5, <2>3 DEF ApplyPreset
    <3> HIDE DEF change
    <3> QED
      BY <1>0, <2>1, <2>2, <3>1, EditTracks DEF settingsVars
  <2>4. CASE p \notin confirming
    BY <1>0, <1>5, <2>4, RestTracks DEF ApplyPreset, settingsVars
  <2> QED
    BY <2>3, <2>4
<1>6. ASSUME NEW n \in Nodes, ToggleMaintenance(n) PROVE Tracked'
  <2>1. CASE SaveAutomationConfig({}, Change("maintenance", maintenanceNodes'))
    <3>1. DOMAIN Change("maintenance", maintenanceNodes') = {"maintenance"}
      BY OneField
    <3>2. DOMAIN Change("maintenance", maintenanceNodes') \cap (OtherFields \cup Lists) = {}
      BY <1>0, <3>1
    <3>3. UNCHANGED <<automationConfig, part>>
      BY <1>6 DEF ToggleMaintenance
    <3> QED
      BY <1>0, <2>1, <3>2, <3>3, EditTracks DEF settingsVars
  <2>2. CASE UNCHANGED fileVars
    BY <1>0, <1>6, <2>2, RestTracks DEF ToggleMaintenance, settingsVars
  <2> QED
    BY <1>6, <2>1, <2>2 DEF ToggleMaintenance
<1> QED
  BY <1>1, <1>2, <1>3, <1>4, <1>5, <1>6 DEF UserOfAutomation

\* A control of the settings page with an endpoint of its own.
LEMMA RequestTracks ==
  ASSUME SettledInv, wanted' # Torn, CopiesKept, UNCHANGED reloadDue,
         NEW kind \in {"settings", "collection", "host", "penalty"}, NEW update, NEW valid,
         NEW wish, Request(Call(kind, update, valid), wish),
         DOMAIN wish \subseteq OtherFields,
         kind = "penalty" => DOMAIN wish = {"penalty"},
         kind # "penalty" => "penalty" \notin DOMAIN wish,
         kind = "settings" => \A f \in FormFields \cap DOMAIN wish : wish[f] = form[f],
         calls = {} /\ wanted # Torn /\ Tracked => Merge(update, wanted) = Merge(wish, wanted)
  PROVE  Tracked'
<1> DEFINE c == Call(kind, update, valid)
<1>1. /\ c.stage = "sent" /\ c.heard /\ c.alone /\ ~c.ok /\ c.kind = kind /\ c.update = update
  BY DEF Call
<1>2. Save(c, wish) /\ UNCHANGED <<automationConfig, part>>
  BY DEF Request
<1> HIDE DEF c
<1>3. OtherFields \cap AutomationFields = {} /\ OtherFields \cap Lists = {}
      /\ "penalty" \notin SettingsFields /\ "penalty" \notin FormFields
  BY FieldsDiffer
<1>4. ASSUME calls = {}, wanted # Torn, Tracked
      PROVE  /\ Outcome(c, wanted) = Merge(wish, wanted)
             /\ WindowsOK(Merge(wish, wanted), made + 1)
  <2>1. Outcome(c, wanted) = Merge(wish, wanted)
    BY <1>1, <1>4 DEF Outcome
  <2>2. IsFile(wanted) /\ made \in Nat /\ WindowsOK(wanted, made) /\ Lists \subseteq Fields
    BY <1>4, FieldNames DEF Tracked
  <2>3. \A l \in Lists : Merge(wish, wanted)[l] = wanted[l]
    BY <1>3, <2>2, MergeFacts
  <2> QED
    BY <2>1, <2>2, <2>3, SameWindows
<1>5. c.kind \notin Gets /\ c.kind # "import"
  BY <1>1 DEF Gets
<1> QED
  BY <1>1, <1>2, <1>3, <1>4, <1>5, SaveTracks

LEMMA SettingsTrack ==
  ASSUME ImportsStandAlone, IInv, OpenedByControls, SettledInv, wanted' # Torn,
         UserOfSettings
  PROVE  Tracked'
<1>1. CASE EditProvider \/ EditModel \/ EditToken \/ EditPenalty
  <2>1. CASE EditPenalty
    <3>1. CopiesKept
      BY <2>1 DEF EditPenalty, CopiesKept
    <3> QED
      BY <2>1, <3>1, RestTracks DEF EditPenalty, automationVars
  <2>2. ASSUME NEW f, NEW v, Fill(f, v) PROVE Tracked'
    <3>1. CopiesKept
      BY <2>2 DEF Fill, CopiesKept, IInv
    <3> QED
      BY <2>2, <3>1, RestTracks DEF Fill, automationVars
  <2> QED
    BY <1>1, <2>1, <2>2 DEF EditProvider, EditModel, EditToken
<1>2. CASE SaveSettings
  <2> DEFINE wish == [f \in {g \in FormFields : config # <<>> /\ form[g] # config[g]} |-> form[f]]
  <2>1. Request(Call("settings", form, TRUE), wish) /\ CopiesKept /\ UNCHANGED reloadDue
    BY <1>2, SameCopies DEF SaveSettings, settingsVars
  <2>2. /\ FormFields \subseteq SettingsFields \ RootFields /\ FormFields \subseteq OtherFields
        /\ DOMAIN wish \subseteq FormFields /\ "penalty" \notin DOMAIN wish
        /\ \A f \in DOMAIN wish : wish[f] = form[f]
    BY FieldsDiffer DEF OtherFields
  <2>3. ASSUME calls = {}, wanted # Torn, Tracked
        PROVE  Merge(form, wanted) = Merge(wish, wanted)
    <3>1. part \cap SettingsControls # {} /\ ~(part \subseteq {"import", "reliable"})
      <4>1. part \subseteq SettingsControls \cup AutomationControls \cup {"reliable"}
        BY PartsAssumption DEF OpenedByControls
      <4>2. FormFields \cap (AutomationControls \cup {"reliable", "import"}) = {}
        BY DEF FormFields, AutomationControls
      <4> QED
        BY <1>2, <4>1, <4>2 DEF SaveSettings
    <3>2. ~reloadDue
      BY <2>3, <3>1 DEF ImportsStandAlone, OpenedByControls, Tracked
    <3>3. /\ DOMAIN config = SettingsFields
          /\ \A f \in SettingsFields \ RootFields : config[f] = wanted[f]
      BY <2>3, <3>1, <3>2 DEF Tracked, SettingsCurrent, InFlight
    <3>4. DOMAIN form = FormFields /\ IsFile(wanted)
      BY <2>3 DEF IInv, Tracked
    <3>6. config # <<>>
      BY <3>3 DEF SettingsFields
    <3>5. \A f \in Fields : (IF f \in DOMAIN form THEN form[f] ELSE wanted[f])
                            = (IF f \in DOMAIN wish THEN wish[f] ELSE wanted[f])
      BY <2>2, <3>3, <3>4, <3>6
    <3> HIDE DEF wish
    <3> QED
      BY <3>4, <3>5, SameMerge
  <2> HIDE DEF wish
  <2> QED
    BY <2>1, <2>2, <2>3, RequestTracks
<1>3. CASE ApplyCollection
  <2>1. PICK interval \in NumberOrNull, workers \in Numbers :
          LET update == [f \in {"collection"} \cup
                            (IF interval = Null THEN {} ELSE {"collection_interval"}) |->
                               IF f = "collection" THEN workers ELSE interval]
          IN  \E valid \in BOOLEAN : Request(Call("collection", update, valid), update)
    BY <1>3 DEF ApplyCollection
  <2> DEFINE u == [f \in {"collection"} \cup
                      (IF interval = Null THEN {} ELSE {"collection_interval"}) |->
                         IF f = "collection" THEN workers ELSE interval]
  <2>2. DOMAIN u \subseteq OtherFields /\ "penalty" \notin DOMAIN u
    BY DEF OtherFields, SettingsFields, FormFields
  <2>3. \E valid \in BOOLEAN : Request(Call("collection", u, valid), u)
    BY <2>1
  <2> HIDE DEF u
  <2>4. CopiesKept /\ UNCHANGED reloadDue
    BY <1>3, SameCopies DEF ApplyCollection, settingsVars
  <2> QED
    BY <2>2, <2>3, <2>4, RequestTracks
<1>4. ASSUME NEW p, SavePenalty(p) PROVE Tracked'
  <2>1. DOMAIN Change("penalty", p) = {"penalty"} /\ "penalty" \in OtherFields
    BY OneField DEF OtherFields
  <2>2. /\ Request(Call("penalty", Change("penalty", p), p \notin InvalidPenalties),
                   Change("penalty", p))
        /\ CopiesKept /\ UNCHANGED reloadDue
    BY <1>4, SameCopies DEF SavePenalty, settingsVars
  <2> QED
    BY <2>1, <2>2, RequestTracks
<1>5. CASE ChangeHost
  <2>1. PICK h \in Hosts :
          IF confirmHostChange = h
          THEN \E answers \in BOOLEAN :
                 Request(Call("host", Change("host", h), answers), Change("host", h))
          ELSE UNCHANGED <<automationVars, fileVars>>
    BY <1>5 DEF ChangeHost
  <2>2. CopiesKept /\ UNCHANGED reloadDue
    BY <1>5, SameCopies DEF ChangeHost
  <2>3. CASE confirmHostChange = h
    <3>1. DOMAIN Change("host", h) = {"host"} /\ "host" \in OtherFields
      BY OneField DEF OtherFields, SettingsFields
    <3> QED
      BY <2>1, <2>2, <2>3, <3>1, RequestTracks
  <2>4. CASE confirmHostChange # h
    BY <2>1, <2>2, <2>4, RestTracks DEF automationVars
  <2> QED
    BY <2>3, <2>4
<1>6. CASE Import
  <2>1. PICK new \in Imports, valid \in BOOLEAN, keeps \in BOOLEAN :
          Request(ImportCall(new, valid, keeps), Imported(new, keeps, wanted))
    BY <1>6 DEF Import, ImportCall
  <2> DEFINE c == ImportCall(new, valid, keeps)
             wish == Imported(new, keeps, wanted)
  <2>2. /\ c.stage = "sent" /\ c.heard /\ c.alone /\ ~c.ok /\ c.kind = "import"
        /\ c.update = new /\ c.keeps = keeps
    BY NewImportIsOK
  <2>3. /\ Save(c, wish) /\ UNCHANGED <<automationConfig, part, reloadDue>>
        /\ CopiesKept
    BY <1>6, <2>1, SameCopies DEF Request, Import, settingsVars
  <2>4. IsFile(new) /\ WindowsOK(new, 0)
    BY FilesAssumption DEF IsFile
  <2>7. IsFile(wish) /\ \A l \in Lists : wish[l] = new[l]
    <3>1. Lists \subseteq DOMAIN new \ {"token"}
      BY <2>4, FieldNames DEF IsFile, Lists
    <3> QED
      BY <2>4, <3>1, ImportedFacts
  <2>8. Outcome(c, wanted) = wish
    BY <2>2 DEF Outcome
  <2> HIDE DEF c, wish
  <2>5. ASSUME calls = {}, wanted # Torn, Tracked
        PROVE  /\ Outcome(c, wanted) = Merge(wish, wanted)
               /\ WindowsOK(Merge(wish, wanted), made + 1)
    <3>1. Merge(wish, wanted) = wish /\ made \in Nat
      BY <2>5, <2>7, MergeFile DEF Tracked
    <3>2. WindowsOK(wish, 0)
      BY <2>4, <2>7, SameWindows
    <3>3. made + 1 + 1..MaxSaves \subseteq 0 + 1..MaxSaves
      BY <3>1, BoundsAssumption
    <3>4. WindowsOK(wish, made + 1)
      BY <3>2, <3>3 DEF WindowsOK
    <3> QED
      BY <2>8, <3>1, <3>4
  <2>6. c.kind \notin Gets /\ "import" \in part
    BY <1>6, <2>2 DEF Gets, Import
  <2> QED
    BY <2>2, <2>3, <2>5, <2>6, SaveTracks
<1> QED
  BY <1>1, <1>2, <1>3, <1>4, <1>5, <1>6
     DEF UserOfSettings, SavePenaltyConfig, ResetPenaltyConfig

LEMMA BalancingTracks ==
  ASSUME ImportsStandAlone, OpenedByControls, SettledInv, wanted' # Torn,
         DistributionBalancing
  PROVE  Tracked'
<1> DEFINE change == [balancing |-> config'.root_balancing,
                      guest_count |-> config'.root_guest_count]
<1>1. SaveAutomationConfig({}, change) /\ UNCHANGED <<automationConfig, part, reloadDue>>
  BY DEF DistributionBalancing
<1>2. DOMAIN change \cap (OtherFields \cup Lists) = {}
  BY DEF OtherFields, SettingsFields, RootFields, FormFields, Lists
<1>3. CopiesKept
  <2>1. PICK g \in RootFields : \E v : config' = [config EXCEPT ![g] = v]
    BY DEF DistributionBalancing, RootFields
  <2>2. /\ DOMAIN config' = DOMAIN config
        /\ \A f \in DOMAIN config \ RootFields : config'[f] = config[f]
    BY <2>1
  <2>3. /\ typed \subseteq typed' /\ \A f \in RootFields \ typed' : config'[f] = config[f]
        /\ UNCHANGED <<form, penaltyConfig>>
    BY DEF DistributionBalancing
  <2> QED
    BY <2>2, <2>3 DEF CopiesKept
<1> HIDE DEF change
<1> QED
  BY <1>1, <1>2, <1>3, FieldNames, EditTracks

\* The answers.
LEMMA AnswersTrack ==
  ASSUME SettledInv, wanted' # Torn, Answer
  PROVE  Tracked'
<1>1. PICK c \in calls :
        \/ HearAutomation(c) /\ UNCHANGED settingsVars
        \/ HearConfig(c) \/ HearSettings(c) \/ HearCollection(c)
        \/ HearPenalty(c) \/ HearHost(c) \/ HearImport(c)
  BY DEF Answer
<1> USE DEF automationVars, settingsVars
<1>2. c.ok
  BY <1>1 DEF HearAutomation, HearConfig, HearSettings, HearCollection, HearPenalty, HearHost,
     HearImport, Hear
<1>3. {} \subseteq {Get("getConfig")}
  OBVIOUS
<1>4. CASE HearAutomation(c) /\ UNCHANGED settingsVars
  BY <1>2, <1>3, <1>4, HearTracks DEF HearAutomation
<1>5. CASE HearConfig(c) \/ HearSettings(c) \/ HearPenalty(c) \/ HearImport(c)
  <2>1. CASE HearConfig(c)
    BY <1>2, <1>3, <2>1, HearTracks DEF HearConfig
  <2>2. CASE HearSettings(c)
    BY <1>2, <1>3, <2>2, HearTracks DEF HearSettings
  <2>3. CASE HearPenalty(c)
    BY <1>2, <1>3, <2>3, HearTracks DEF HearPenalty
  <2>4. CASE HearImport(c)
    BY <1>2, <1>3, <2>4, HearTracks DEF HearImport
  <2> QED
    BY <1>5, <2>1, <2>2, <2>3, <2>4
<1>6. CASE HearCollection(c) \/ HearHost(c)
  <2>1. Hear(c, {Get("getConfig")}) /\ {Get("getConfig")} # {}
    BY <1>2, <1>6 DEF HearCollection, HearHost
  <2> QED
    BY <1>6, <2>1, HearTracks DEF HearCollection, HearHost
<1> QED
  BY <1>1, <1>4, <1>5, <1>6

\* A page that is loaded reads what its controls show.
LEMMA MountGetsRead ==
  /\ \A c \in MountGets : /\ c.kind \in Gets /\ c.update = <<>> /\ c.stage = "sent"
                          /\ ~c.ok /\ c.heard /\ c.alone
  /\ part \ SettingsControls # {} => \E c \in MountGets : c.kind = "getAutomation"
  /\ part \cap SettingsControls # {} => \E c \in MountGets : c.kind = "getConfig"
  /\ "penalty" \in part => \E c \in MountGets : c.kind = "getPenalty"
<1>1. ASSUME NEW kind \in Gets
      PROVE  LET c == Get(kind) IN
             /\ c.kind = kind /\ c.update = <<>> /\ c.stage = "sent"
             /\ ~c.ok /\ c.heard /\ c.alone
  BY DEF Get, Call
<1>2. \A c \in MountGets : \E kind \in Gets : c = Get(kind)
  BY DEF MountGets, Gets
<1>3. /\ part \ SettingsControls # {} => Get("getAutomation") \in MountGets
      /\ part \cap SettingsControls # {} => Get("getConfig") \in MountGets
      /\ "penalty" \in part => Get("getPenalty") \in MountGets
      /\ "getAutomation" \in Gets /\ "getConfig" \in Gets /\ "getPenalty" \in Gets
  BY DEF MountGets, Gets
<1> QED
  BY <1>1, <1>2, <1>3

LEMMA ReloadTracks ==
  ASSUME SettledInv, wanted' # Torn, Reload
  PROVE  Tracked'
<1>1. calls = {} /\ MountSaves = {} /\ wanted # Torn /\ wanted' = wanted /\ Tracked
  BY DEF Reload, Abandon, SettledInv
<1>2. /\ calls' = MountGets /\ UNCHANGED <<file, part>> /\ ~reloadDue'
      /\ made' = made + Cardinality(MountSaves)
  BY <1>1 DEF Reload, Abandon
<1>3. Cardinality({}) = 0
  BY FS_EmptySet
<1>4. file' = wanted' /\ made' = made /\ made \in Nat /\ IsFile(wanted) /\ WindowsOK(wanted, made)
  BY <1>1, <1>2, <1>3 DEF Tracked
<1>5. \A c \in calls' : ReadOK(c)' /\ c.heard /\ c.alone
  BY <1>2, MountGetsRead DEF ReadOK
<1>6. part \ SettingsControls # {} => AutomationCurrent'
  BY <1>2, MountGetsRead DEF AutomationCurrent, InFlight
<1>7. part \cap SettingsControls # {} => SettingsCurrent'
  BY <1>2, MountGetsRead DEF SettingsCurrent, InFlight
<1>8. "penalty" \in part => PenaltyCurrent'
  BY <1>2, MountGetsRead DEF PenaltyCurrent, InFlight
<1> QED
  BY <1>1, <1>2, <1>4, <1>5, <1>6, <1>7, <1>8 DEF Tracked

LEMMA InitSettled == Init => OpenedByControls /\ SettledInv
<1> SUFFICES ASSUME Init PROVE OpenedByControls /\ SettledInv
  OBVIOUS
<1>1. OpenedByControls
  BY DEF Init, OpenedByControls
<1>2. file = wanted /\ wanted = InitialFile /\ calls = MountGets /\ made = 0 /\ ~reloadDue
  BY DEF Init, FileInit
<1>3. IsFile(wanted) /\ WindowsOK(wanted, made)
  BY <1>2, FilesAssumption DEF IsFile
<1>4. \A c \in calls : ReadOK(c) /\ c.heard /\ c.alone
  BY <1>2, MountGetsRead DEF ReadOK
<1>5. part \ SettingsControls # {} => AutomationCurrent
  BY <1>2, MountGetsRead DEF AutomationCurrent, InFlight
<1>6. part \cap SettingsControls # {} => SettingsCurrent
  BY <1>2, MountGetsRead DEF SettingsCurrent, InFlight
<1>7. "penalty" \in part => PenaltyCurrent
  BY <1>2, MountGetsRead DEF PenaltyCurrent, InFlight
<1> QED
  BY <1>1, <1>2, <1>3, <1>4, <1>5, <1>6, <1>7 DEF Tracked, SettledInv

LEMMA NextSettled ==
  ASSUME ImportsStandAlone, IInv, OpenedByControls, SettledInv, [Next]_vars
  PROVE  SettledInv'
<1> SUFFICES ASSUME wanted' # Torn PROVE Tracked'
  BY DEF SettledInv
<1>1. CASE UserOfAutomation /\ UNCHANGED settingsVars
  BY <1>1, AutomationTracks
<1>2. CASE WindowActions /\ UNCHANGED settingsVars
  BY <1>2, WindowActionsTrack
<1>3. CASE UserOfSettings \/ DistributionBalancing
  BY <1>3, SettingsTrack, BalancingTracks
<1>4. CASE Reload \/ Answer
  BY <1>4, ReloadTracks, AnswersTrack
<1>5. CASE Serving \/ Failing
  BY <1>5, ServingTracks DEF Serving, Failing
<1>6. CASE UNCHANGED vars
  <2>1. CopiesKept /\ UNCHANGED <<fileVars, automationConfig, part, reloadDue>>
    BY <1>6, SameCopies DEF vars, automationVars, settingsVars
  <2> QED
    BY <2>1, RestTracks
<1> QED
  BY <1>1, <1>2, <1>3, <1>4, <1>5, <1>6 DEF Next

LEMMA PagesAreTracked ==
  ASSUME ImportsStandAlone
  PROVE  Spec => [](OpenedByControls /\ SettledInv)
<1>1. ImportsStandAlone
  OBVIOUS
<1>2. /\ IInv /\ OpenedByControls /\ SettledInv /\ [Next]_vars
      => OpenedByControls' /\ SettledInv'
  BY <1>1, NextOpened, NextSettled
<1> QED
  BY <1>2, InitSettled, Invariance, PTL DEF Spec

\* A user who waits for each answer gets what was asked for: the file at rest is the one
\* with every edit made, although saves send whole sections and lists by place.
THEOREM SettledFilesAreWanted ==
  ASSUME ImportsStandAlone
  PROVE  Spec => []SettledMeansSaved
<1>1. SettledInv => SettledMeansSaved
  BY DEF SettledInv, Tracked, SettledMeansSaved, AtRest
<1> QED
  BY <1>1, PagesAreTracked, PTL

\* ... and the pages show it.
THEOREM PagesAreCurrent ==
  ASSUME ImportsStandAlone
  PROVE  Spec => []PagesShowTheFile
<1>1. SettledInv => PagesShowTheFile
  <2> SUFFICES ASSUME SettledInv, AtRest, ~reloadDue
               PROVE  /\ part \ SettingsControls # {} =>
                           automationConfig = [f \in AutomationFields |-> file[f]]
                      /\ part \cap SettingsControls # {} =>
                           /\ \A f \in SettingsFields \ (typed \cap RootFields) :
                                config[f] = file[f]
                           /\ \A f \in FormFields \ typed : form[f] = file[f]
                      /\ "penalty" \in part \ typed => penaltyConfig = file["penalty"]
    BY DEF PagesShowTheFile
  <2>1. Tracked /\ calls = {} /\ file = wanted
    BY DEF SettledInv, Tracked, AtRest
  <2> QED
    BY <2>1 DEF Tracked, AutomationCurrent, SettingsCurrent, PenaltyCurrent, InFlight
<1> QED
  BY <1>1, PagesAreTracked, PTL
=============================================================================
