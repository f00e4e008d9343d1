---------------------------- MODULE TimeWindows ----------------------------
(***************************************************************************)
(* The migration and blackout windows of the automation page (app.jsx).    *)
(* The page shows both lists as one.  The row being edited is remembered   *)
(* by its place in that list, the row whose removal awaits a second click  *)
(* by its list and its place in it, and both places outlive the changes    *)
(* that move the windows.                                                  *)
(***************************************************************************)
EXTENDS AutomationPage, SequencesExt

CONSTANTS
    Names,      \* names a window can have; "" is none
    Days,       \* days of the week
    Times       \* start and end times

VARIABLES
    editingWindowIndex,     \* null, or a place in the combined list
    confirmRemoveWindow,    \* null, or the list and place of a window
    newWindowData           \* null, or the form for a new window

windowVars == <<editingWindowIndex, confirmRemoveWindow, newWindowData>>

ASSUME NamesAndTimes == Names \cup {""} \subseteq STRING /\ Times # {}

Lists == {"migration_windows", "blackout_windows"}

\* `id` is the window's identity, which the code does not have.
Windows == [id : Nat, name : STRING, days : SUBSET Days, times : Times]
Window(id, w) == [id |-> id, name |-> w.name, days |-> w.days, times |-> w.times]

EmptyWindow == [type |-> "migration_windows", name |-> "", days |-> {},
                times |-> CHOOSE t \in Times : TRUE]

-----------------------------------------------------------------------------
(* The combined list: rows are the list and the place a window has there.  *)
AllWindows ==
    LET first == Len(Shown("migration_windows"))
    IN  [i \in 1..first + Len(Shown("blackout_windows")) |->
            IF i <= first THEN <<"migration_windows", i>> ELSE <<"blackout_windows", i - first>>]

WindowIn(row) == Shown(row[1])[row[2]]

\* A click on a bar of the weekly timeline opens the first window of that list
\* with the bar's name and times.
OpenFromTimeline ==
    /\ "edit" \in part
    /\ \E row \in Range(AllWindows) :
         LET w == WindowIn(row)
             same == {i \in DOMAIN Shown(row[1]) :
                        /\ Shown(row[1])[i].name = w.name
                        /\ Shown(row[1])[i].times = w.times}
             first == CHOOSE i \in same : \A j \in same : i <= j
         IN  /\ w.days # {}
             /\ editingWindowIndex' = first + IF row[1] = "migration_windows" THEN 0
                                              ELSE Len(Shown("migration_windows"))
    /\ UNCHANGED <<confirmRemoveWindow, newWindowData, automationVars, fileVars>>

-----------------------------------------------------------------------------
(* Saving.  What is sent is indexed by place; what the user wants is about *)
(* the window the row shows, and is tracked while wanted is not Torn.      *)

SaveWindows(change, wish) ==
    /\ SaveAs(Schedule, change, wish)
    /\ UNCHANGED <<automationConfig, maintenanceNodes, confirming,
                   editingPreset, confirmed, part>>

WantedIn(list) == IF wanted = Torn THEN <<>> ELSE wanted[list]

Without(id, list) ==
    LET places == {i \in DOMAIN WantedIn(list) : WantedIn(list)[i].id = id}
    IN  IF places = {} THEN WantedIn(list)
        ELSE RemoveAt(WantedIn(list), CHOOSE i \in places : TRUE)

\* The row that is open for editing, if the list still has one at its place.
Edited == IF editingWindowIndex \in DOMAIN AllWindows \ {Null}
          THEN {AllWindows[editingWindowIndex]} ELSE {}

\* newWindows[window.originalIndex] = { ...window, field: value }
ChangeWindow(row, field, value) ==
    LET w == WindowIn(row) IN
    /\ SaveWindows(
         Change(row[1], [Shown(row[1]) EXCEPT ![row[2]] = [w EXCEPT ![field] = value]]),
         [l \in Lists |-> [i \in DOMAIN WantedIn(l) |->
             IF WantedIn(l)[i].id = w.id THEN [WantedIn(l)[i] EXCEPT ![field] = value]
             ELSE WantedIn(l)[i]]])
    /\ UNCHANGED windowVars

\* The window goes to the end of the other list, whichever of the two type
\* buttons was clicked.
ToggleType ==
    \E row \in Edited :
      LET list == row[1]  w == WindowIn(row) IN
      /\ SaveWindows(
           [l \in Lists |-> IF l = list THEN RemoveAt(Shown(l), row[2])
                            ELSE Append(Shown(l), w)],
           [l \in Lists |-> IF l = list THEN Without(w.id, l)
                            ELSE Append(Without(w.id, l), w)])
      /\ editingWindowIndex' = Null
      /\ UNCHANGED <<confirmRemoveWindow, newWindowData>>

RenameWindow == \E row \in Edited, n \in Names \cup {""} : ChangeWindow(row, "name", n)

\* One day, or all of them; nothing keeps a window from losing its last day.
ChangeDays ==
    \E row \in Edited :
      LET days == WindowIn(row).days IN
      \/ ChangeWindow(row, "days", IF days = Days THEN {} ELSE Days)
      \/ \E d \in Days :
           ChangeWindow(row, "days", IF d \in days THEN days \ {d} ELSE days \cup {d})

ChangeTimes == \E row \in Edited, t \in Times : ChangeWindow(row, "times", t)

OpenEditor ==
    /\ "edit" \in part
    /\ editingWindowIndex' \in (DOMAIN AllWindows \cup {Null}) \ {editingWindowIndex}
    /\ UNCHANGED <<confirmRemoveWindow, newWindowData, automationVars, fileVars>>

\* Two clicks on Remove.
RemoveWindow ==
    /\ "remove" \in part
    /\ \E row \in Range(AllWindows) \ Edited :
         LET list == row[1]  w == WindowIn(row) IN
         IF confirmRemoveWindow = row
         THEN /\ SaveWindows(Change(list, RemoveAt(Shown(list), row[2])),
                             [l \in Lists |-> Without(w.id, l)])
              /\ confirmRemoveWindow' = Null
         ELSE /\ confirmRemoveWindow' = row
              /\ UNCHANGED <<automationVars, fileVars>>
    /\ UNCHANGED <<editingWindowIndex, newWindowData>>

-----------------------------------------------------------------------------
(* The form for a new window.                                              *)

Form(new) ==
    /\ newWindowData' = new
    /\ UNCHANGED <<editingWindowIndex, confirmRemoveWindow, automationVars, fileVars>>

OpenForm == "add" \in part /\ newWindowData = Null /\ Form(EmptyWindow)

CloseForm == newWindowData # Null /\ Form(Null)

FillNameAndType ==
    /\ newWindowData # Null
    /\ \/ \E l \in Lists : Form([newWindowData EXCEPT !.type = l])
       \/ \E n \in Names : Form([newWindowData EXCEPT !.name = n])

FillDays ==
    /\ newWindowData # Null
    /\ \E days \in SUBSET Days : Form([newWindowData EXCEPT !.days = days])

FillTimes ==
    /\ newWindowData # Null
    /\ \E t \in Times : Form([newWindowData EXCEPT !.times = t])

SaveWindow ==
    /\ newWindowData # Null
    /\ newWindowData.name # "" /\ newWindowData.days # {}
    /\ LET l == newWindowData.type
           w == Window(made + 1, newWindowData)
       IN  SaveWindows(Change(l, Append(Shown(l), w)), Change(l, Append(WantedIn(l), w)))
    /\ newWindowData' = Null
    /\ UNCHANGED <<editingWindowIndex, confirmRemoveWindow>>

WindowActions ==
    \/ OpenFromTimeline \/ ToggleType \/ RenameWindow \/ ChangeDays \/ ChangeTimes
    \/ OpenEditor \/ RemoveWindow
    \/ OpenForm \/ CloseForm \/ FillNameAndType \/ FillDays \/ FillTimes \/ SaveWindow
=============================================================================
