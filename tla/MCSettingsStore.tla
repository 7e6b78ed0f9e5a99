--------------------------- MODULE MCSettingsStore ---------------------------
(* A service switch, the site switch that copies it, two write identities.   *)
EXTENDS SettingsStore

CONSTANTS youtube, shorts, acct, other, w1, w2

MCFields == {youtube, shorts}
MCLegacyFields == {youtube}
MCParent == [f \in {shorts} |-> youtube]
MCFresh == [f \in MCFields |-> TRUE]
MCLineages == {acct, other}
MCIds == {w1, w2}

\* Single operations at every base a receipt of this model can name, and one
\* request that carries both fields.
Ops(bases) == [value : BOOLEAN, base : bases, step : 1..MaxStep]
MCOpSets ==
    UNION {[{f} -> Ops(0..2)] : f \in MCFields}
    \union {[f \in MCFields |-> [value |-> FALSE, base |-> b, step |-> 1]] : b \in 0..1}
=============================================================================
