SPECIFICATION Spec
CONSTANTS
    MaxDatagram = 1
    MaxFragments = 2
    MaxReasm = 1
    ReplayWindow = 2
    Flows <- MCFlows
    MaxId = 2
    AnswerQueue = 1
    Kinds = {"direct", "shadowsocks", "ss2022", "tuic", "hysteria2", "trojan", "vless", "socks5"}
    Keys = {"a", "b"}
    Cases <- MCCases
    FlowQueue = 1
    MaxArrivals = 2
    MaxFaults = 1
    MaxDials = 1
INVARIANTS TablesAgree RepliesAreSound
PROPERTY NothingIsStuck
CHECK_DEADLOCK FALSE
