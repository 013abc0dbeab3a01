SPECIFICATION NetworkSpec
CONSTANTS
    Hosts = {1, 2}
    Clients = {1}
    Servers = {2}
    TCP_MAX_SOCKETS = 2
    NET_SOCK_MAX = 3
    SOCK_BACKLOG_MAX = 2
    RXSIZE = 3
    SEQ_MOD = 8
    ISNs = {6}
    TCP_MAX_RETRIES = 1
    Port = 9
    FirstPort = 20
    MaxConnects = 1
    MaxBytes = 2
    Senders = {1}
    MaxWire = 5
    MaxHeld = 1
    SendOk = {TRUE,FALSE}
    Addrs = {1, 2}
    Macs = {11}
    GATEWAY = 1
    Pool = {3, 4}
    Names = {"a", "b"}
    AddrOf <- MCAddrOf
    DNSSERVER = 1
    ARP_CACHE_SIZE = 1
    UDP_MAX_LISTENERS = 2
    UDP_POLL_SLOTS = 2
    UDP_BLOCKING_MAX = 2
    DNS_CACHE_SIZE = 1
    UdpPorts = {7, 8}
    UdpProcs = {p1, p2, p3}
    MaxXid = 2
    MaxQuery = 3
    NDesc = 3
    MaxFrames = 6
    Nested = FALSE
INVARIANTS
    StreamInOrder
    
    AnswersMatch
    NoLateStore
    
 
CHECK_DEADLOCK FALSE
