--------------------------- MODULE MCRdpServerOpen ---------------------------
(***************************************************************************)
(* A small instance of RdpServerOpen: the settings that select a path.     *)
(* persist is what the client says, monitorLayout and rdpSecurity only     *)
(* decide on PDUs that are sent or skipped on the way.  Skipped joins,     *)
(* auto-detection and multitransport belong to different phases and are    *)
(* taken one at a time, the last two with a licence.                       *)
(***************************************************************************)
EXTENDS RdpServerOpen, FiniteSets

MCServerConfigs ==
    {s \in ServerSettings :
        /\ s.persist /\ ~s.rdpSecurity /\ s.monitorLayout = s.skipJoin
        /\ Cardinality({f \in {"skipJoin", "autoDetect", "multitransport"} : s[f]}) <= 1
        /\ s.licenseRequired = (s.autoDetect \/ s.multitransport)}
=============================================================================
