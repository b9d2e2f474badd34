------------------------------ MODULE MCServer ------------------------------
(***************************************************************************)
(* Instances of Server for TLC.                                            *)
(***************************************************************************)
EXTENDS Server, MCDispatch

\* The server starts on a database that holds the groups already.
StaffedInit == ServerInit /\ groups \in [Groups -> GroupValues]

StaffedSpec == StaffedInit /\ [][ServerNext]_allVars /\ Fairness
=============================================================================
