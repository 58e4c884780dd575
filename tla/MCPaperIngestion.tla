-------------------------- MODULE MCPaperIngestion --------------------------
(* Model-checking instances of PaperIngestion: small libraries of records.   *)
EXTENDS PaperIngestion

\* One work known to all three sources.  The two external records have different
\* first keys, hence different paper ids.
PaperOfWork == [A |-> "arxiv", S |-> "src-doi", O |-> "src-title"]
PriorityOfWork == [A |-> 0, S |-> 1, O |-> 2]
KeysOfWork == [A |-> {"arxiv", "title"}, S |-> {"doi", "title"}, O |-> {"title"}]

Sent(r, v, w) == [record |-> r, version |-> v, withdrawn |-> w]
JobsOfWork ==
    {Sent("A", 1, FALSE), Sent("A", 2, FALSE), Sent("A", 3, TRUE),
     Sent("S", 1, FALSE), Sent("O", 1, FALSE)}

\* The second version of the arXiv paper is shorter than the first; the better of the
\* external copies can be removed in part.
SizeOfWork ==
    [r \in DOMAIN PaperOf |->
        [v \in Versions |-> IF r # "O" /\ v = 1 THEN 2 ELSE 1]]

\* The hypotheses under which the properties of the pipeline are proved.
ASSUME OrdinaryLibrary == OneArxivRecordPerWork /\ KeysJoinWorks /\ VersionsAreFixed
=============================================================================
