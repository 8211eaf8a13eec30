----------------------------- MODULE MCDDR4Core -----------------------------
(***************************************************************************)
(* DDR4Core and its properties, for TLC.                                   *)
(***************************************************************************)
EXTENDS DDR4Core, CoreProperties

\* A command is about to be dispatched.
Dispatching == phase = "busy" /\ ~Due(queue, target)

\* The assertion of handleSelfRefreshExit: the rank is in self-refresh when a
\* SREFEX is handled that follows its SREFEN.
SelfRefreshExitAsserted ==
    \A r \in Ranks :
        Dispatching /\ Permitted("SREFEX", r, Banks) => rank[r].memState = "SREF"
=============================================================================
