-------------------------- MODULE MCKnowledgeGraph --------------------------
(* One project with two runs, an edit and a document.                      *)
EXTENDS KnowledgeGraph, TLC

CONSTANTS r1, r2, e1, d1
=============================================================================
