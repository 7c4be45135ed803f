------------------------------ MODULE Validation ------------------------------
(***************************************************************************)
(* What an announcement must be like to be considered at all, and what the *)
(* handler fills in.  Texts are model values; constants say what a regular *)
(* expression, a name server or a list of the config makes of them.        *)
(***************************************************************************)
EXTENDS Integers

CONSTANTS
  Clients,              \* addresses that announcements come from
  LocalClients,         \* those of the machine the server runs on
  Hosts,                \* host names and addresses
  NoHost,               \* the host left blank
  AddressOf,            \* the host that is a client's address
  Resolved,             \* hosts that are well-formed and can be looked up: the
                        \* clients whose address is among what they resolve to
  Ids,                  \* session ids
  IdLength,             \* their lengths
  Versions,             \* texts given as protocol version
  WellFormedVersions,   \* those of the generic format
  ProtocolWhitelist,    \* of the config
  AllowWellKnownPorts   \* of the config

ASSUME ValidationAssumption ==
  /\ AddressOf \in [Clients -> Hosts]
  /\ DOMAIN Resolved \subseteq Hosts
  /\ NoHost \notin Hosts
  /\ IdLength \in [Ids -> Nat]
  /\ ProtocolWhitelist \subseteq Versions
  /\ AllowWellKnownPorts \in BOOLEAN

DefaultPort == 27750

Ports == 1..65535

ValidateHostname(host, client) ==
  \/ host = NoHost /\ client \notin LocalClients
  \/ /\ host \in DOMAIN Resolved
     /\ client \in LocalClients \cup Resolved[host]

IsValidProtocol(version) ==
  IF ProtocolWhitelist # {} THEN version \in ProtocolWhitelist
  ELSE version \in WellFormedVersions

\* The id is checked for its length only.
ValidateAnnouncement(info, client) ==
  /\ ValidateHostname(info.host, client)
  /\ info.port \in {0} \cup (IF AllowWellKnownPorts THEN Ports ELSE Ports \ 1..1023)
  /\ IdLength[info.id] \in 1..36
  /\ IsValidProtocol(info.protocol)

HostOf(info, client) == IF info.host = NoHost THEN AddressOf[client] ELSE info.host

PortAsGiven(info) == info.port

PortOf(info) == IF info.port = 0 THEN DefaultPort ELSE info.port

=============================================================================
