--------------------------- MODULE MCRdpConnection ---------------------------
(***************************************************************************)
(* Small instances of RdpConnection.                                       *)
(***************************************************************************)
EXTENDS RdpConnection

\* Every feature on or off on either side, except licensing.
MCClientConfigs ==
    {s \in ClientSettings : ~s.cal /\ (s.heartbeat => ~s.autoDetect)}
MCServerConfigs ==
    {s \in ServerSettings : ~s.licenseRequired /\ s.persist}

\* Fewer for the temporal properties: the features that add a round trip or a PDU to an
\* activation, and servers that issue licences to clients that hold one and have a message
\* channel.
MCFairClientConfigs ==
    {s \in ClientSettings : /\ s.cal /\ ~s.rdpSecurity /\ s.heartbeat = ~s.autoDetect
                            /\ s.skipJoin = s.autoDetect /\ s.multitransport = s.autoDetect}
MCFairServerConfigs ==
    {s \in ServerSettings : /\ s.persist /\ ~s.rdpSecurity /\ s.skipJoin
                            /\ s.autoDetect /\ s.multitransport}

=============================================================================
