--------------------------- MODULE WebServClient ---------------------------
(***************************************************************************)
(* weaved's HTTP server (src/buffet/webserv_client.cc): webservd offers    *)
(* its two protocol handlers in any order, may take them back when it      *)
(* dies, and offers them again.  The server counts as available as soon as *)
(* it has the HTTPS port: OnProtocolHandlerConnected tests that one twice, *)
(* and not the HTTP port.                                                  *)
(***************************************************************************)

VARIABLE ports  \* the handlers whose http_port_ or https_port_ is not 0

Handlers == {"http", "https"}

WebServTypeOK == ports \subseteq Handlers

\* The constructor asks webservd for its handlers; none is there yet.
WebServInit == ports = {}

\* server_available_callback_ runs in OnProtocolHandlerConnected.
ServerAvailable == "https" \in ports'

\* The port of OnProtocolHandlerConnected ...
PortConnected(h) == h \notin ports /\ ports' = ports \cup {h}

\* ... and of OnProtocolHandlerDisconnected.
PortDisconnected(h) == h \in ports /\ ports' = ports \ {h}

=============================================================================
