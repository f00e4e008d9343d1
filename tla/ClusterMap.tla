----------------------------- MODULE ClusterMap -----------------------------
(***************************************************************************)
(* The cluster data that the dashboard draws (app.jsx): read from the      *)
(* collector's cache, brought up to date by a scan of the nodes, and       *)
(* patched by handlers, some of which write back the copy they had when    *)
(* they were clicked.                                                      *)
(***************************************************************************)
EXTENDS DashboardCalls

CONSTANT
    MaxAttempts     \* how often a refresh looks for new data

VARIABLES
    data,       \* the page's copy of the cluster
    loading,    \* the refresh buttons are disabled
    modal       \* the dialog that covers the page

mapVars == <<data, loading, modal, part>>

AnalyzeCall == Call("analyze", <<>>)

CloseModal ==
    /\ modal # None
    /\ modal' = None
    /\ UNCHANGED <<callVars, data, loading, part>>

Open(m) ==
    /\ data # None /\ modal = None
    /\ modal' = m
    /\ UNCHANGED <<callVars, data, loading, part>>

-----------------------------------------------------------------------------
(* fetchAnalysis, handleRefresh, fetchGuestLocations.                      *)

\* The effect that reads the data again every hour; in a behaviour without "map",
\* only when the first read has failed.
AutoRefresh ==
    /\ "map" \in part \/ (data = None /\ calls = {})
    /\ loading' = TRUE
    /\ Start(AnalyzeCall)
    /\ UNCHANGED <<clusterVars, data, modal, part>>

HandleRefresh ==
    /\ "refresh" \in part /\ ~loading
    /\ loading' = TRUE
    /\ Start(Call("refresh", [old |-> IF data = None THEN None ELSE data.stamp]))
    /\ UNCHANGED <<clusterVars, data, modal, part>>

WaitCall(old, attempts) == Call("wait", [old |-> old, attempts |-> attempts])

\* HearRefresh, did a failed refresh leave the button as it is.
HearRefresh_KeepsLoading(c) ==
    /\ Heard(c, "refresh")
    /\ IF c.answer = Error THEN End(c) ELSE GoOn(c, WaitCall(c.old, 0))
    /\ UNCHANGED <<clusterVars, data, loading, modal, part>>

HearRefresh(c) ==
    /\ Heard(c, "refresh")
    /\ IF c.answer = Error THEN End(c) /\ loading' = FALSE
       ELSE GoOn(c, WaitCall(c.old, 0)) /\ UNCHANGED loading
    /\ UNCHANGED <<clusterVars, data, modal, part>>

\* New data, or the last attempt: read it.  An answer that is not ok is one more
\* attempt; no answer, or one that cannot be parsed, ends the refresh.
HearWait(c) ==
    /\ Heard(c, "wait")
    /\ \/ c.answer = Error /\ End(c) /\ loading' = FALSE
       \/ IF \/ c.answer # Error /\ c.answer.stamp # c.old
             \/ c.attempts + 1 = MaxAttempts
          THEN GoOn(c, AnalyzeCall) /\ loading' = TRUE
          ELSE GoOn(c, WaitCall(c.old, c.attempts + 1)) /\ UNCHANGED loading
    /\ UNCHANGED <<clusterVars, data, modal, part>>

\* HearAnalysis, were only the first answer shown.
HearAnalysis_Once(c) ==
    /\ Heard(c, "analyze")
    /\ loading' = FALSE
    /\ IF c.answer = Error THEN End(c) /\ UNCHANGED data
       ELSE data' = (IF data = None THEN c.answer ELSE data) /\ GoOn(c, LocationsCall)
    /\ UNCHANGED <<clusterVars, modal, part>>

HearAnalysis(c) ==
    /\ Heard(c, "analyze")
    /\ loading' = FALSE
    /\ IF c.answer = Error THEN End(c) /\ UNCHANGED data
       ELSE data' = c.answer /\ GoOn(c, LocationsCall)
    /\ UNCHANGED <<clusterVars, modal, part>>

HearLocations(c) ==
    /\ Heard(c, "locations")
    /\ data' = IF c.answer = Error \/ data = None THEN data
               ELSE [data EXCEPT !.at = Over(c.at, @), !.lists = c.lists]
    /\ End(c)
    /\ UNCHANGED <<clusterVars, loading, modal, part>>

-----------------------------------------------------------------------------
(* Tags.                                                                   *)

TagCall(kind, g, tag) ==
    Call(kind, [guest |-> g, tag |-> tag, snap |-> data, seen |-> None])

OpenTagModal(g) ==
    /\ "tags" \in part
    /\ Open([kind |-> "tag", guest |-> g, tags |-> data.tags[g]])

\* A tag is typed in, or one of the quick-add buttons for the tags that the
\* guest did not have when the dialog opened; the dialog stays until the answer.
HandleAddTag(tag) ==
    /\ modal # None /\ modal.kind = "tag"
    /\ Start(TagCall("addTag", modal.guest, tag))
    /\ UNCHANGED <<clusterVars, mapVars>>

HandleRemoveTag(g, tag) ==
    /\ "tags" \in part
    /\ data # None /\ tag \in data.tags[g]
    /\ Open([kind |-> "remove", guest |-> g, tag |-> tag])

ConfirmAndRemoveTag ==
    /\ modal # None /\ modal.kind = "remove"
    /\ modal' = None
    /\ Start(TagCall("removeTag", modal.guest, modal.tag))
    /\ UNCHANGED <<clusterVars, data, loading, part>>

HearTag(c) ==
    /\ Heard(c, "addTag") \/ Heard(c, "removeTag")
    /\ IF c.answer = Error THEN End(c) /\ UNCHANGED modal
       ELSE /\ GoOn(c, Call("refreshTags", [guest |-> c.guest, snap |-> c.snap]))
            /\ modal' = IF c.kind = "addTag" /\ modal # None /\ modal.kind = "tag"
                        THEN None ELSE modal
    /\ UNCHANGED <<clusterVars, data, loading, part>>

\* setData({ ...data, ... }) with the data of the click
HearTagRefresh(c) ==
    /\ Heard(c, "refreshTags")
    /\ data' = IF c.answer = Error THEN data
               ELSE [c.snap EXCEPT !.tags[c.guest] = c.answer]
    /\ End(c)
    /\ UNCHANGED <<clusterVars, loading, modal, part>>

-----------------------------------------------------------------------------
\* The page has no data and the effect of its mount reads them; a behaviour with
\* "loaded" begins when that is done.
MapInit ==
    /\ modal = None
    /\ data = IF "loaded" \in part THEN cache ELSE None
    /\ loading = ("loaded" \notin part)
    /\ calls = IF "loaded" \in part THEN {} ELSE {[AnalyzeCall EXCEPT !.id = 1]}

UserOfMap ==
    \/ AutoRefresh \/ HandleRefresh \/ ConfirmAndRemoveTag
    \/ \E t \in Tags : HandleAddTag(t)
    \/ \E g \in Guests : OpenTagModal(g) \/ \E t \in Tags : HandleRemoveTag(g, t)

HearOfMap(c) ==
    \/ HearRefresh(c) \/ HearWait(c) \/ HearAnalysis(c) \/ HearLocations(c)
    \/ HearTag(c) \/ HearTagRefresh(c)
=============================================================================
