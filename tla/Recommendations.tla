-------------------------- MODULE Recommendations --------------------------
(***************************************************************************)
(* The recommended migrations: computed by the service (app.py) from its   *)
(* cache of the cluster, kept in recommendations_cache.json, written by    *)
(* the page and by a timer's service (generate_recommendations.py), and    *)
(* shown by the dashboard (app.jsx).  A set of recommendations is known by *)
(* the placement of the guests for which it was computed.                  *)
(***************************************************************************)
EXTENDS ClusterMap

CONSTANTS
    Missing,    \* no file
    Torn        \* a file that was cut off

VARIABLES
    recsFile,                   \* recommendations_cache.json
    recommendations,            \* what the page shows
    loadingRecommendations      \* the page says "Generating", the button is disabled

recVars == <<recsFile, recommendations, loadingRecommendations>>

RecInit ==
    /\ recsFile = Missing
    /\ recommendations = None
    /\ loadingRecommendations = FALSE

-----------------------------------------------------------------------------
(* The service.                                                            *)

\* Somebody else moves a guest, or Proxmox does.
MoveElsewhere(g) ==
    /\ "recs" \in part
    /\ location' \in {[location EXCEPT ![g] = n] : n \in Nodes \ {location[g]}}
    /\ UNCHANGED <<tags, tasks, cache, views, calls, troubles, mapVars, recVars>>

GenerateCall(page) == Call("generate", [computed |-> None, wrote |-> "no", page |-> page])

\* The timer of the generator service, once at a time.
GeneratorFires ==
    /\ "recs" \in part
    /\ \A c \in calls : c.kind = "generate" => c.page
    /\ Start(GenerateCall(FALSE))
    /\ UNCHANGED <<clusterVars, mapVars, recVars>>

\* POST /api/recommendations: compute, truncate the file, write it.
Compute(c) ==
    /\ c.kind = "generate" /\ c.computed = None
    /\ \E w \in Workers :
         calls' = (calls \ {c}) \cup {[c EXCEPT !.computed = views[w].at]}
    /\ UNCHANGED <<clusterVars, recVars>>

TruncateRecs(c) ==
    /\ c.kind = "generate" /\ c.computed # None /\ c.wrote = "no"
    /\ recsFile' = Torn
    /\ calls' = (calls \ {c}) \cup {[c EXCEPT !.wrote = "truncated"]}
    /\ UNCHANGED <<clusterVars, recommendations, loadingRecommendations>>

\* Two that write at once leave the one or the other, or a mixture.
WriteRecs(c) ==
    /\ c.kind = "generate" /\ c.wrote = "truncated"
    /\ recsFile' \in {c.computed} \cup
         (IF recsFile = Torn THEN {} ELSE {Torn})
    /\ Answer(c, c.computed)
    /\ UNCHANGED <<clusterVars, recommendations, loadingRecommendations>>

\* GET /api/recommendations.
AnswerCached(c) ==
    /\ c.kind = "cached"
    /\ Answer(c, IF recsFile = Torn THEN Error ELSE recsFile)
    /\ UNCHANGED <<clusterVars, recVars>>

AnswerOfRecs(c) ==
    /\ c.answer = None
    /\ Compute(c) \/ TruncateRecs(c) \/ WriteRecs(c) \/ AnswerCached(c)

-----------------------------------------------------------------------------
(* The page.                                                               *)

\* FetchRecommendations, were it done only until there are some.
FetchRecommendations_Once ==
    /\ "recs" \in part
    /\ data # None /\ recommendations = None
    /\ Start(Call("cached", <<>>))
    /\ UNCHANGED <<clusterVars, mapVars, recVars>>

\* Every 2 minutes, and whenever data or thresholds change.
FetchRecommendations ==
    /\ "recs" \in part
    /\ data # None
    /\ Start(Call("cached", <<>>))
    /\ UNCHANGED <<clusterVars, mapVars, recVars>>

\* Without a file, the page asks for one, also if it has asked before.
HearCached(c) ==
    /\ Heard(c, "cached")
    /\ IF c.answer = Missing THEN GoOn(c, GenerateCall(TRUE)) ELSE End(c)
    /\ loadingRecommendations' = (loadingRecommendations \/ c.answer = Missing)
    /\ recommendations' = IF c.answer \in {Missing, Error} THEN recommendations ELSE c.answer
    /\ UNCHANGED <<clusterVars, mapVars, recsFile>>

GenerateRecommendations ==
    /\ "recs" \in part
    /\ data # None /\ ~loadingRecommendations
    /\ loadingRecommendations' = TRUE
    /\ Start(GenerateCall(TRUE))
    /\ UNCHANGED <<clusterVars, mapVars, recsFile, recommendations>>

HearGenerated(c) ==
    /\ Heard(c, "generate")
    /\ End(c)
    /\ IF c.page
       THEN /\ loadingRecommendations' = FALSE
            /\ recommendations' = IF c.answer = Error THEN recommendations ELSE c.answer
       ELSE UNCHANGED <<recommendations, loadingRecommendations>>
    /\ UNCHANGED <<clusterVars, mapVars, recsFile>>

HearOfRecs(c) == HearCached(c) \/ HearGenerated(c)
=============================================================================
