------------------------------ MODULE MCTunnel ------------------------------
(* Scenarios of the instance: each outbound with a server that agrees with *)
(* the profile, and the ways in which it does not.                         *)
EXTENDS Tunnel

Conf(key, ipsks) ==
    [key |-> key, ipsks |-> ipsks, answer |-> "ok", clock |-> "now", addon |-> 1,
     bnd |-> "ip", site |-> "tls13", suite |-> "AES_128_GCM_SHA256",
     flight |-> <<8>>, noise |-> 9, padding |-> 2, ticket |-> FALSE, signer |-> "cert key"]
Speech(a, t) == [e \in Ends |-> IF e = "app" THEN [i \in 1..a |-> i] ELSE [i \in 1..t |-> i]]
Case(profile, conf) ==
    [profile |-> profile, conf |-> conf, pbk |-> "pbk", sid |-> "sid", nfs |-> "enc key",
     speech |-> Speech(2, 2), cap |-> IF profile.encryption \in {"", "none"} THEN 3 ELSE 8]

Vless(security, encryption, flow) == Profile("vless", security, encryption, flow, "", <<"uuid">>)
Ss(method, keys) == Profile("shadowsocks", "none", "", "", method, keys)
Aead256 == "aes-256-gcm"
Blake3 == "2022-blake3-aes-256-gcm"
Vision == "xtls-rprx-vision"
VlessConf == Conf("uuid", <<>>)

Plainly ==
    { Case(Profile("direct", "", "", "", "", <<>>), Conf("", <<>>)),
      Case(Profile("trojan", "tls", "", "", "", <<"pw">>), Conf("pw", <<>>)),
      Case(Vless("none", "none", ""), VlessConf),
      Case(Profile("http", "", "", "", "", <<"u">>), Conf("u", <<>>)),
      Case(Profile("http", "", "", "", "", <<>>), [Conf("", <<>>) EXCEPT !.answer = "no"]),
      Case(Profile("socks5", "", "", "", "", <<"u">>), [Conf("u", <<>>) EXCEPT !.bnd = "domain"]),
      Case(Profile("socks5", "", "", "", "", <<>>), Conf("", <<>>)),
      Case(Profile("socks5", "", "", "", "", <<>>), Conf("u", <<>>)),
      Case(Profile("socks5", "", "", "", "", <<"v">>), Conf("u", <<>>)) }
Ssly ==
    { Case(Ss(Aead256, <<"pw">>), Conf("pw", <<>>)),
      Case(Ss(Aead256, <<"pw">>), Conf("other", <<>>)),
      Case(Ss(Blake3, <<"psk">>), Conf("psk", <<>>)),
      Case(Ss(Blake3, <<"ipsk", "psk">>), Conf("psk", <<"ipsk">>)),
      Case(Ss(Blake3, <<"psk">>), [Conf("psk", <<>>) EXCEPT !.clock = "old"]),
      Case(Ss(Blake3, <<"psk">>), Conf("other", <<>>)),
      Case(Ss("rc4-md5", <<"pw">>), Conf("pw", <<>>)) }
Encrypted ==
    { [Case(Vless("none", mode, ""), VlessConf) EXCEPT !.speech = Speech(4, 2)] : mode \in {"native", "random"} }
      \union
    { Case(Vless("none", "xorpub", Vision), [VlessConf EXCEPT !.padding = 0]),
      Case(Vless("none", "other", ""), VlessConf),
      [Case(Vless("none", "native", ""), VlessConf) EXCEPT !.nfs = "stale"] }
Realities ==
    { Case(Vless("reality", "none", ""), VlessConf),
      Case(Vless("reality", "none", ""), [VlessConf EXCEPT !.flight = <<2, 2, 2, 2>>]),
      Case(Vless("reality", "none", ""), [VlessConf EXCEPT !.flight = <<3, 5>>]),
      Case(Vless("reality", "none", ""), [VlessConf EXCEPT !.ticket = TRUE]),
      Case(Vless("reality", "none", ""), [VlessConf EXCEPT !.signer = "other key"]),
      Case(Vless("reality", "none", Vision), VlessConf),
      Case(Vless("none", "none", Vision), VlessConf),
      Case(Vless("reality", "random", ""), VlessConf),
      Case(Vless("reality", "none", ""), [VlessConf EXCEPT !.suite = "AES_128_CCM"]),
      [Case(Vless("reality", "none", ""), VlessConf) EXCEPT !.pbk = "stale"],
      [Case(Vless("reality", "none", ""), [VlessConf EXCEPT !.site = "tls12"]) EXCEPT !.sid = "stale"] }

MCScenarios == Plainly \union Ssly \union Encrypted \union Realities
=============================================================================
