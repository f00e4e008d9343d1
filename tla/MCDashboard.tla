---------------------------- MODULE MCDashboard -----------------------------
\* The dashboard over two nodes.
EXTENDS Dashboard

MCHome == [g \in Guests |-> "n1"]
MCAlike == {<<g, g>> : g \in Guests}
MCRecs == {[guest |-> g, source |-> "n1", target |-> "n2"] : g \in Guests}

MCFinds(text, row) == text = "" \/ row # 2
MCSortKey(field, row) == IF field = "vmid" THEN row ELSE row % 2

MapParts ==
    {{"refresh", "lag"}, {"map", "refresh"}, {"map", "tags", "loaded"},
     {"cards", "map", "lag", "reliable"}, {"recs", "reliable"}, {"recs", "loaded"},
     {"evacuate"}}
CardParts ==
    {{"dialog", "reliable"}, {"cards", "slow"}, {"cards", "cancel", "loaded"},
     {"panel", "timer", "reliable", "loaded"}, {"panel", "buttons", "loaded"},
     {"panel", "stop", "loaded"}, {"history", "loaded"}, {"table", "loaded"}}
=============================================================================
