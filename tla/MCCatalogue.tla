----------------------------- MODULE MCCatalogue -----------------------------
(* The bounds of Catalogue, for each kind of entry.  Two clients at once are   *)
(* of interest where a cache, versions or links are involved.                  *)
EXTENDS Catalogue

CONSTANTS t1, t2, p1

MCKinds == {"llm", "mcp", "skill", "prompt", "collection", "agent", "community"}
MCValues ==
  [k \in MCKinds |-> CASE k \in {"agent", "collection"} -> SUBSET {p1}
                      [] k = "llm" -> {t1}
                      [] OTHER -> {t1, t2}]
MCMaxEvents ==
  [k \in MCKinds |-> CASE k \in {"llm", "collection"} -> 2
                      [] k \in {"mcp", "prompt", "agent", "community"} -> 1
                      [] OTHER -> 0]
MCMaxItems == [k \in MCKinds |-> IF k \in {"mcp", "prompt"} THEN 2 ELSE 1]
=============================================================================
