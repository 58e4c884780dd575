--------------------------- MODULE MCEvidenceLoop ---------------------------
(* Model-checking instance of EvidenceLoop: one search tool, the extraction  *)
(* tool and one tool without stance, with different caps.                    *)
EXTENDS EvidenceLoop

CONSTANTS search, extract, fetch

ToolsDef == {search, extract, fetch}
StanceDef == {search, extract}
EvidenceDef == {extract}
CapDef == [t \in ToolsDef |-> IF t = extract THEN 2 ELSE 1]
=============================================================================
