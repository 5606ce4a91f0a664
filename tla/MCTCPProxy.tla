----------------------------- MODULE MCTCPProxy -----------------------------
(* Small instances of TCPProxy for TLC. *)
EXTENDS TCPProxy

Header(handshake) == [kind |-> "header", handshake |-> handshake]
Hello(name) == [kind |-> "body", sni |-> name]
Data == [kind |-> "data"]

\* A client with a server name, without one, one whose record is no ClientHello, one
\* without TLS, and a silent one.
ClientStreams ==
    {<<Header(TRUE), Hello("a"), Data>>, <<Header(TRUE), Hello(None)>>,
     <<Header(TRUE), Data>>, <<Header(FALSE), Data>>, <<>>}

Up(weight, healthy) == [weight |-> weight, healthy |-> healthy]
Route(name, ups) == [sni |-> name, ups |-> ups]

\* A plain port, a port with a default behind an SNI route, and one without; the
\* weights include an unset one, and some upstreams are not healthy.
PortTables ==
    {<<Route(None, <<Up(2, TRUE), Up(0, TRUE)>>)>>,
     <<Route(None, <<Up(1, TRUE)>>), Route("a", <<Up(1, FALSE), Up(1, TRUE), Up(3, TRUE)>>)>>,
     <<Route("a", <<Up(1, FALSE)>>)>>}
=============================================================================
