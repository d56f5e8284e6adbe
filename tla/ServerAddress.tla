---------------------------- MODULE ServerAddress ----------------------------
(***************************************************************************)
(* The address arithmetic of cmd/idata-client/main.go.  A WebSocket URL is *)
(* a record of the three parts the program looks at; the path is always    *)
(* /ws/agent and is left out.  A URL text without a port has port NoPort.  *)
(***************************************************************************)
EXTENDS Integers

CONSTANTS
  Hosts,           \* numeric IP addresses that can appear in a URL
  LoopbackHosts,   \* those that isLoopbackHost accepts
  SpecialHost      \* 10.90.65.189, the server with a dedicated port

ASSUME HostsAssumption == LoopbackHosts \subseteq Hosts

NoPort == -1
SpecialPort == 12345
PortNumbers == 1..65535

URL == [scheme : {"ws", "wss"}, host : Hosts, port : Int]

\* The port a URL reaches: its own, or the default of its scheme.
EndpointPort(url) ==
  IF url.port # NoPort THEN url.port
  ELSE IF url.scheme = "wss" THEN 443 ELSE 80

\* The dedicated port beats everything; the previous URL's port is kept only
\* when the host stays the same.
ServerPortForHost(host, previous) ==
  IF host = SpecialHost THEN SpecialPort
  ELSE IF previous.host = host THEN EndpointPort(previous) ELSE 80

\* The URL startConnection builds for an IP typed by the user or taken from a
\* launch link: host and port as above, the transport of the previous URL.
CandidateURL(host, previous) ==
  [scheme |-> previous.scheme, host |-> host, port |-> ServerPortForHost(host, previous)]

\* serverURLFromEndpoint rejects a port outside 1..65535.
BuildableURL(url) == url.port \in PortNumbers

\* validateServerURL: plain ws:// needs a loopback host or --allow-insecure.
ValidServerURL(url, allowInsecure) ==
  url.scheme = "ws" => allowInsecure \/ url.host \in LoopbackHosts

\* validateLaunchServerURL: a launch URL names its port.
ValidLaunchServerURL(url) == url.host \in Hosts /\ url.port \in PortNumbers
=============================================================================
