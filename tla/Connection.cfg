\* Two hosts, each with a server of either protocol, and the local server.  Two
\* stats packets, so that their order and a partial answer exist.
CONSTANTS
    Hosts = {h1, h2}
    Ports = {p, x}
    XPorts = {x}
    NumStatPackets = 2
SPECIFICATION Spec
INVARIANT StreamFollowsChannel
INVARIANT ChannelToHost
INVARIANT StatsPacketToSend
INVARIANT DemoIsOffline
