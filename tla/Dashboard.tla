----------------------------- MODULE Dashboard ------------------------------
(***************************************************************************)
(* The dashboard: the cluster map, the migrations started from it, the     *)
(* panel of the automation, the recommendations and the dialogs of an      *)
(* evacuation, over one page, one service, one collector and one cluster.  *)
(* A behaviour uses one of the sets of controls in Parts.                  *)
(***************************************************************************)
EXTENDS AutomationPanel, Recommendations, EvacuationDialog, Tables

vars == <<callVars, mapVars, cardVars, panelVars, recVars, evacuationVars, tableVars>>

Init ==
    /\ ClusterInit
    /\ MapInit
    /\ CardInit
    /\ PanelInit
    /\ RecInit
    /\ EvacuationInit
    /\ TablesInit
    /\ "table" \notin part => table = "guests"

OnlyMap == UNCHANGED <<cardVars, panelVars, recVars, evacuationVars, tableVars>>
OnlyCards == UNCHANGED <<panelVars, recVars, evacuationVars, tableVars>>
OnlyPanel == UNCHANGED <<recVars, evacuationVars, tableVars>>
OnlyRecs == UNCHANGED <<cardVars, panelVars, evacuationVars, tableVars>>
OnlyEvacuation == UNCHANGED <<cardVars, panelVars, recVars, tableVars>>
OnlyTable == UNCHANGED <<callVars, mapVars, cardVars, panelVars, recVars, evacuationVars>>

AnswerAny(c) ==
    \/ AnswerOne(c) /\ UNCHANGED mapVars /\ OnlyMap
    \/ AnswerOfPanel(c) /\ UNCHANGED <<mapVars, cardVars>> /\ UNCHANGED panelPageVars /\ OnlyPanel
    \/ AnswerOfRecs(c) /\ UNCHANGED mapVars /\ OnlyRecs
    \/ AnswerEvacuation(c) /\ UNCHANGED mapVars /\ OnlyEvacuation

Hear(c) ==
    \/ HearOfMap(c) /\ OnlyMap
    \/ HearOfCards(c) /\ OnlyCards
    \/ HearOfPanel(c) /\ OnlyPanel
    \/ HearOfRecs(c) /\ OnlyRecs
    \/ HearOfEvacuation(c) /\ OnlyEvacuation

\* The service answers, and the page hears, the call of slot i.
Answering(i) == \E c \in calls : c.id = i /\ AnswerAny(c)
Hearing(i) == \E c \in calls : c.id = i /\ Hear(c)

Ending(t) == EndTask(t) /\ UNCHANGED mapVars /\ OnlyMap
Rereading(w) == Reread(w) /\ UNCHANGED mapVars /\ OnlyMap
Working == Process /\ UNCHANGED <<mapVars, cardVars, panelPageVars>> /\ OnlyPanel

Collecting ==
    /\ part \cap {"map", "refresh", "recs", "evacuate"} # {}
    /\ Collect("refresh" \in part, "lag" \in part)
    /\ UNCHANGED mapVars /\ OnlyMap

User ==
    \/ (UserOfMap \/ CloseModal) /\ OnlyMap
    \/ UserOfCards /\ OnlyCards
    \/ UserOfPanel /\ OnlyPanel
    \/ GenerateRecommendations /\ OnlyRecs
    \/ UserOfEvacuation /\ OnlyEvacuation
    \/ "table" \in part /\ TablesNext /\ OnlyTable

Intervals ==
    \/ Timers /\ OnlyCards
    \/ TimersOfPanel /\ OnlyPanel
    \/ FetchRecommendations /\ OnlyRecs

Server ==
    \/ \E t \in DOMAIN tasks : Ending(t)
    \/ Collecting
    \/ \E w \in Workers : Rereading(w)
    \/ Working
    \/ TimerFires /\ UNCHANGED <<mapVars, cardVars, panelPageVars>> /\ OnlyPanel
    \/ GeneratorFires /\ OnlyRecs
    \/ \E g \in Guests : MoveElsewhere(g) /\ OnlyRecs

Next ==
    \/ User
    \/ Intervals
    \/ Server
    \/ \E i \in 1..MaxCalls : Answering(i) \/ Hearing(i)

Spec == Init /\ [][Next]_vars

\* What the page reads again and again.
Reading ==
    \/ AutoRefresh /\ OnlyMap
    \/ (PollStatus \/ PollRunHistory) /\ OnlyPanel
    \/ FetchRecommendations /\ OnlyRecs

\* Every call goes on until its answer is heard; tasks and runs end; the collector
\* runs and workers read its cache again; intervals and timers fire.  The user, the
\* timer of the automation and time limits owe nothing.  An interval may find no
\* free slot again and again: hence SF.
FairSpec ==
    /\ Spec
    /\ \A i \in 1..MaxCalls : WF_vars(Answering(i) \/ Hearing(i))
    /\ WF_vars(\E t \in DOMAIN tasks : Ending(t))
    /\ WF_vars(Working)
    /\ WF_vars(Collecting)
    /\ \A w \in Workers : WF_vars(Rereading(w))
    /\ SF_vars(Reading)
    /\ SF_vars(\E m \in trackers : Poll(m) /\ OnlyCards)
    /\ WF_vars(\E key \in clearing : ClearStatus(key) /\ OnlyCards)

-----------------------------------------------------------------------------

\* The types of what the page keeps: above all, that the map always has a node
\* for each guest, whatever the service answered.
TypeOK ==
    /\ location \in [Guests -> Nodes]
    /\ \A t \in DOMAIN tasks : tasks[t].state \in {"running", "moved", "failed", "aborted"}
    /\ data # None => /\ data.at \in [Guests -> Nodes]
                      /\ data.lists \in [Nodes -> SUBSET Guests]
    /\ loading \in BOOLEAN /\ cancellingMigration \in BOOLEAN
    /\ guestsMigrating \subseteq Guests
    /\ DOMAIN completedMigrations \subseteq Guests
    /\ \A key \in DOMAIN migrationStatus :
         migrationStatus[key] \in {"running", "failed", "success", "cancelled"}

\* As long as nothing fails and the automation has not started a run (its
\* migrations are watched by the panel), none runs unwatched: each has its interval,
\* or the answer that will set it is on its way, whatever else has been started,
\* ended or cancelled for the same guest (trackMigration, app.jsx).
RunningIsTracked ==
    troubles = 0 /\ started = 0 =>
      \A t \in DOMAIN tasks :
        tasks[t].state = "running" =>
          \/ \E m \in trackers : m.task = t
          \/ \E c \in calls : c.kind = "migrate" /\ c.answer = t

\* No migration runs, and the calls in flight only read.
Quiet ==
    /\ \A t \in DOMAIN tasks : tasks[t].state # "running"
    /\ \A c \in calls : c.kind \in {"analyze", "refresh", "wait", "locations"}

MapShowsCluster ==
    /\ data # None
    /\ data.at = location /\ data.lists = Lists(location) /\ data.tags = tags

\* When the cluster comes to rest, so does the map, at what the cluster is:
\* whichever of the refresh, the scan of the nodes, the answers with stale data
\* and the handlers that write back an old copy came last.
MapCatchesUp == <>[]("map" \in part /\ Quiet) => <>[]MapShowsCluster

\* As long as nothing fails, a recommendation whose migration was started does
\* not say "running" for ever.
StartsEnd ==
    \A g \in Guests, n \in Nodes :
      []<>(troubles > 0 \/ StatusOf(<<g, n>>) # "running")

\* The buttons that a call disables come back, whether the call fails, takes more
\* reads, brings nothing new, or overlaps another: refresh; cancel, run now, test,
\* generate; and those of each node.
ButtonsReturn ==
    /\ []<>(/\ ~loading
            /\ ~cancellingMigration
            /\ ~runningAutomation /\ ~testingAutomation
            /\ ~loadingRecommendations)
    /\ \A n \in Nodes : []<>(n \notin planningNodes \cup evacuatingNodes)

\* Nothing runs, and the calls in flight only read.
PanelQuiet ==
    /\ run = None
    /\ \A t \in DOMAIN tasks : tasks[t].state # "running"
    /\ \A c \in calls : c.kind \in {"status", "peek", "lastStatus", "runHistory"}

\* When the automation comes to rest, so does its panel, at what the server says:
\* whoever started, paused, tested or cancelled, and in whatever order the reads
\* of its three buttons and two intervals were answered.
PanelCatchesUp ==
    <>[]PanelQuiet =>
      <>[](/\ "panel" \in part => automationStatus = Status
           /\ "history" \in part => runHistory = runs)

\* Once the file of recommendations stays as it is, the page shows what is in it,
\* although a page that finds no file writes one of its own, and the timer's
\* service another.
RecommendationsCatchUp ==
    \A at \in [Guests -> Nodes] :
      <>[](recsFile = at) => <>[](recommendations = at)

\* Turning pages, searching, sorting and changing the page size never leave the
\* user on a page without rows when there are rows to show; only rows that go
\* away can (guest table and migration history, app.jsx).
TableShowsRows ==
    [][/\ rows' = rows
       /\ Found = {} \/ PageRows(page) # {}
       => Found' = {} \/ PageRows(page)' # {}]_tableVars
=============================================================================
