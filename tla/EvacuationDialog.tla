-------------------------- MODULE EvacuationDialog --------------------------
(***************************************************************************)
(* The dialogs by which a node is evacuated (app.jsx): the node's details  *)
(* with the button that asks for a plan, the plan with a choice for each   *)
(* guest, and the confirmation that sends the choices.  The plan and the   *)
(* confirmation are covered by no other dialog and outlive the calls they  *)
(* make.  What a confirmed evacuation does is module Evacuation.           *)
(***************************************************************************)
EXTENDS ClusterMap

VARIABLES
    planningNodes,      \* nodes whose plan button shows "Planning"
    evacuatingNodes,    \* nodes whose plan button shows "Evacuating"
    evacuationPlan,     \* the plan shown, with its node
    showConfirmModal,   \* the confirmation is shown
    guestActions        \* choices, by guest

evacuationVars == <<planningNodes, evacuatingNodes, evacuationPlan, showConfirmModal,
                    guestActions>>

EvacuationInit ==
    /\ planningNodes = {}
    /\ evacuatingNodes = {}
    /\ evacuationPlan = None
    /\ showConfirmModal = FALSE
    /\ guestActions = <<>>

Covered == modal # None \/ evacuationPlan # None

\* A node on the cluster map is clicked.
SelectNode(n) ==
    /\ "evacuate" \in part /\ ~Covered
    /\ Open([kind |-> "node", node |-> n])
    /\ UNCHANGED evacuationVars

PlanEvacuation ==
    /\ modal # None /\ modal.kind = "node"
    /\ modal.node \notin evacuatingNodes \cup planningNodes
    /\ data.lists[modal.node] # {}
    /\ planningNodes' = planningNodes \cup {modal.node}
    /\ Start(Call("plan", [node |-> modal.node]))
    /\ UNCHANGED <<clusterVars, mapVars, evacuatingNodes, evacuationPlan, showConfirmModal,
                   guestActions>>

\* POST /api/nodes/evacuate: by the cache file; guests that fit nowhere are skipped.
AnswerEvacuation(c) ==
    /\ c.answer = None
    /\ LET guests == cache.lists[c.node]
       IN  \/ c.kind \in {"plan", "evacuate"} /\ guests = {} /\ Answer(c, Error)
           \/ /\ c.kind = "plan" /\ guests # {}
              /\ \E skipped \in SUBSET guests :
                   Answer(c, [node |-> c.node, guests |-> guests \ skipped])
           \/ c.kind = "evacuate" /\ guests # {} /\ Answer(c, "ok")
    /\ UNCHANGED <<clusterVars, evacuationVars>>

\* Whatever is shown by now, a plan replaces it and closes the node's details.
HearPlan(c) ==
    /\ Heard(c, "plan")
    /\ planningNodes' = planningNodes \ {c.node}
    /\ End(c)
    /\ IF c.answer = Error THEN UNCHANGED <<evacuationPlan, modal>>
       ELSE /\ evacuationPlan' = c.answer
            /\ modal' = IF modal # None /\ modal.kind = "node" THEN None ELSE modal
    /\ UNCHANGED <<clusterVars, data, loading, part, evacuatingNodes, showConfirmModal,
                   guestActions>>

ChooseAction(g, a) ==
    /\ evacuationPlan # None /\ ~showConfirmModal
    /\ g \in evacuationPlan.guests
    /\ guestActions' = With(guestActions, g, a)
    /\ UNCHANGED <<callVars, mapVars, planningNodes, evacuatingNodes, evacuationPlan,
                   showConfirmModal>>

\* The cross and the backdrop keep the choices, "Cancel" forgets them.
ClosePlan(kept) ==
    /\ evacuationPlan # None /\ ~showConfirmModal
    /\ evacuationPlan' = None
    /\ guestActions' = kept
    /\ UNCHANGED <<callVars, mapVars, planningNodes, evacuatingNodes, showConfirmModal>>

ReviewAndConfirm ==
    /\ evacuationPlan # None /\ ~showConfirmModal
    /\ showConfirmModal' = TRUE
    /\ UNCHANGED <<callVars, mapVars, planningNodes, evacuatingNodes, evacuationPlan,
                   guestActions>>

CloseConfirmation ==
    /\ showConfirmModal /\ evacuationPlan # None
    /\ showConfirmModal' = FALSE
    /\ UNCHANGED <<callVars, mapVars, planningNodes, evacuatingNodes, evacuationPlan,
                   guestActions>>

ConfirmEvacuation ==
    /\ showConfirmModal /\ evacuationPlan # None
    /\ showConfirmModal' = FALSE
    /\ evacuatingNodes' = evacuatingNodes \cup {evacuationPlan.node}
    /\ Start(Call("evacuate", [node |-> evacuationPlan.node, actions |-> guestActions]))
    /\ UNCHANGED <<clusterVars, mapVars, planningNodes, evacuationPlan, guestActions>>

\* The plan stays until the answer, which closes whatever plan is shown by then.
HearEvacuation(c) ==
    /\ Heard(c, "evacuate")
    /\ evacuatingNodes' = evacuatingNodes \ {c.node}
    /\ IF c.answer = Error THEN End(c) /\ UNCHANGED <<evacuationPlan, guestActions>>
       ELSE /\ evacuationPlan' = None
            /\ guestActions' = <<>>
            /\ GoOn(c, LocationsCall)
    /\ UNCHANGED <<clusterVars, mapVars, planningNodes, showConfirmModal>>

UserOfEvacuation ==
    \/ PlanEvacuation \/ ClosePlan(<<>>) \/ ClosePlan(guestActions)
    \/ ReviewAndConfirm \/ CloseConfirmation \/ ConfirmEvacuation
    \/ \E n \in Nodes : SelectNode(n)
    \/ \E g \in Guests, a \in {"migrate", "ignore", "poweroff"} : ChooseAction(g, a)

HearOfEvacuation(c) == HearPlan(c) \/ HearEvacuation(c)
=============================================================================
