------------------------------ MODULE MCRoutes ------------------------------
(* Small instances of Routes for TLC. *)
EXTENDS Routes

CONSTANTS a1, a2, b1

\* Two instances of the first service, one of the second.
OwnerOf == [i \in Instances |-> IF i = b1 THEN 2 ELSE 1]

Exact(name, port) == [kind |-> "exact", name |-> name, port |-> port]
Wild(name, port) == [kind |-> "wild", name |-> name, port |-> port]

\* "sub" is a subdomain of "apex".
Domains == [name \in {"sub", "apex"} |-> IF name = "apex" THEN {"sub"} ELSE {}]

\* An instance has at most three routes.
TurnOrder == <<<<a1, 1>>, <<a1, 2>>, <<a1, 3>>, <<b1, 1>>, <<b1, 2>>, <<b1, 3>>,
               <<a2, 1>>, <<a2, 2>>, <<a2, 3>>>>

Inst(indexed, plain, fabio) ==
    [healthy |-> TRUE, indexed |-> indexed, plain |-> plain, fabio |-> fabio]
Plain(meta) == Inst(<<>>, meta, <<>>)
Fabio(tags) == Inst(<<>>, <<>>, tags)

\* A redirect to "apex", with the path of the request.
ToApex(tail) == [base |-> "apex", tail |-> tail]

HTTPRegs ==
    {Plain([host |-> Exact("sub", 0), priority |-> None]),
     Inst(<<>>, [host |-> Wild("apex", 0), strip |-> TRUE],
          <<[host |-> Exact("sub", 8443), path |-> 1, strip |-> TRUE],
            [host |-> Exact("sub", 0), code |-> 301, url |-> ToApex("path")],
            [host |-> Wild("apex", 0), protocol |-> "https"]>>),
     Inst(<<[host |-> Wild("apex", 8443), priority |-> 1, code |-> 301, url |-> ToApex("uri"),
             noCache |-> TRUE, status |-> "5xx"],
            [host |-> Exact("sub", 0), enabled |-> FALSE],
            [host |-> [AnyHost EXCEPT !.port = 8443], priority |-> 2, code |-> 302,
             url |-> ToApex("")]>>,
          [path |-> Root], <<>>),
     Fabio(<<[host |-> Exact("sub", 80), path |-> 1, code |-> 200, url |-> ToApex("")],
             [host |-> Exact("sub", 443), code |-> 301, url |-> ToApex("path")]>>),
     [Plain([host |-> Exact("sub", 0), path |-> Root, priority |-> 1])
         EXCEPT !.healthy = FALSE]}

TCPRegs ==
    {Fabio(<<[host |-> [AnyHost EXCEPT !.port = 9000], protocol |-> "tcp"]>>),
     Plain([protocol |-> "udp", port |-> 9000, priority |-> 1]),
     Inst(<<[protocol |-> "tls-passthrough", host |-> Exact("apex", 0),
             sni |-> Exact("sub", 0), port |-> 9000],
            [protocol |-> "tcp", host |-> Wild("apex", 0), port |-> 9000, priority |-> 1]>>,
          <<>>, <<>>)}

AllRegs == HTTPRegs \cup TCPRegs

Requests == [name : {"sub", "apex"}, port : {0, 8443}, path : {0, 1}]
=============================================================================
