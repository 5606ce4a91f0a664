SPECIFICATION Spec
CONSTANTS
    Services = {1, 2}
    Instances = {a1, a2, b1}
    Owner <- OwnerOf
    LocalInstances = {a1}
    Turns <- TurnOrder
    Registrations <- AllRegs
    Protocols = {"http", "https", "tcp", "tls-passthrough", "udp"}
    Statuses = {"5xx"}
    Names = {"", "sub", "apex"}
    Subdomains <- Domains
    HTTPRequests <- Requests
    SNIs = {"sub", "apex", None}
    None = None
    a1 = a1
    a2 = a2
    b1 = b1
INVARIANT ExactBeforeWildcard
