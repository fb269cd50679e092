------------------------------ MODULE Endpoints -----------------------------
(***************************************************************************)
(* The addresses that the server listens on: how socketParseAddress        *)
(* (socket.c) reads them, and what websListen (http.c) keeps of them.      *)
(***************************************************************************)
EXTENDS Strings, TLC

CONSTANTS
  WEBS_MAX_LISTEN,   \* endpoints at most
  IpAddr             \* websIpAddr: the address of the host

PositionOf(s, c) == SelectInSeq(s, LAMBDA d : d = c)

\* It looks like an IPv6 address if it has two or more colons.
ipv6(ip) == ip # NULL /\ Len(SelectSeq(ip, LAMBDA c : c = ":")) >= 2

\* The text behind a colon: * is any port.
PortOf(s) == IF s # << >> /\ s[1] = "*" THEN -1 ELSE atoi(s)

WithoutScheme(address) ==
  LET at == {i \in 1 .. Len(address) - 2 : SubSeq(address, i, i + 2) = <<":", "/", "/">>}
  IN IF at = {} THEN address ELSE From(address, Min(at) + 3)

ParseV6(address, defaultPort) ==
  LET cp == PositionOf(address, "]")
      inside == SubSeq(address, 2, cp - 1)
      behind == From(address, cp + 1)
  IN IF cp = 0 THEN [ip |-> address, port |-> defaultPort]
     ELSE IF behind # << >> /\ behind[1] = ":" THEN [ip |-> inside, port |-> PortOf(Tail(behind))]
     ELSE [ip |-> IF inside = << >> THEN NULL ELSE inside, port |-> defaultPort]

ParseV4(address, defaultPort) ==
  LET cp == PositionOf(address, ":")
      host == SubSeq(address, 1, cp - 1)
  IN IF cp # 0
     THEN [ip |-> IF host = << >> \/ host[1] = "*" THEN NULL ELSE host, port |-> PortOf(From(address, cp + 1))]
     ELSE IF PositionOf(address, ".") = 0 /\ address # << >> /\ address[1] \in DOMAIN Digit
     THEN [ip |-> NULL, port |-> atoi(address)]
     ELSE [ip |-> address, port |-> defaultPort]

socketParseAddress(address, defaultPort) ==
  LET default == IF defaultPort < 0 THEN 80 ELSE defaultPort
      rest == WithoutScheme(address)
      parsed == IF ipv6(rest) THEN ParseV6(rest, default) ELSE ParseV4(rest, default)
  IN [ip |-> parsed.ip, port |-> parsed.port, secure |-> address # << >> /\ address[1] = "https"]

\* The default ports are 0, and the URLs are null, until an endpoint sets them.
Closed == [listens |-> << >>, httpPort |-> 0, sslPort |-> 0, hostUrl |-> NULL, ipAddrUrl |-> NULL, rc |-> 0]

UrlOf(ip, port) == IF port = 80 THEN ip ELSE ip \o <<":", ToString(port)>>

\* websListen.  An endpoint is [address, opens]: whether socketListen opens it.
websListen(s, endpoint) ==
  LET e == socketParseAddress(endpoint.address, 80)
      host == IF e.ip = NULL THEN IpAddr ELSE e.ip
  IN IF Len(s.listens) >= WEBS_MAX_LISTEN \/ ~ endpoint.opens THEN [s EXCEPT !.rc = -1]
     ELSE [listens |-> Append(s.listens, e),
           sslPort |-> IF e.secure /\ s.sslPort = 0 THEN e.port ELSE s.sslPort,
           httpPort |-> IF ~ e.secure /\ s.httpPort = 0 THEN e.port ELSE s.httpPort,
           hostUrl |-> IF s.hostUrl = NULL THEN UrlOf(host, e.port) ELSE s.hostUrl,
           ipAddrUrl |-> IF s.ipAddrUrl = NULL THEN UrlOf(IpAddr, e.port) ELSE s.ipAddrUrl,
           rc |-> 0]

----------------------------------------------------------------------------
(* What it promises: an address is written from its parts, NULL and 0 for  *)
(* those that are left out. *)

WriteAddress(a) ==
  LET host == IF a.ip = NULL THEN << >>
              ELSE IF ipv6(a.ip) /\ (a.port # << >> \/ a.brackets) THEN <<"[">> \o a.ip \o <<"]">> ELSE a.ip
  IN (IF a.scheme = NULL THEN << >> ELSE a.scheme \o <<":", "/", "/">>) \o host
     \o (IF a.port = << >> THEN << >> ELSE IF a.ip = NULL /\ ~ a.brackets THEN a.port ELSE <<":">> \o a.port)

Meant(a) ==
  [ip |-> a.ip, secure |-> a.scheme = <<"https">>,
   port |-> IF a.port = << >> THEN 80 ELSE IF a.port = <<"*">> THEN -1 ELSE atoi(a.port)]

\* The first endpoints that open are listened on; the first of each scheme
\* gives the port where redirects of the scheme lead.
ListensAs(out, endpoints) ==
  LET open == SelectSeq(endpoints, LAMBDA e : e.opens)
      kept == [k \in 1 .. Min({WEBS_MAX_LISTEN, Len(open)}) |-> Meant(open[k].parts)]
      first(secure) == SelectInSeq(kept, LAMBDA e : e.secure = secure)
      portOf(k) == IF k = 0 THEN 0 ELSE kept[k].port
  IN /\ out.listens = kept
     /\ out.httpPort = portOf(first(FALSE)) /\ out.sslPort = portOf(first(TRUE))
     /\ kept # << >> => out.ipAddrUrl = UrlOf(IpAddr, kept[1].port)
=============================================================================
