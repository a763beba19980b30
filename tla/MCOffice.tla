----------------------------- MODULE MCOffice -------------------------------
(***************************************************************************)
(* Office with all its agents in one of the branches.                      *)
(***************************************************************************)
EXTENDS Office

CONSTANT b1

BranchOfAgents == [a \in Agents |-> b1]
=============================================================================
