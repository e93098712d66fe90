------------------------------- MODULE Config -------------------------------
(***************************************************************************)
(* internal/config: what Load makes of a parsed YAML file, and the tables  *)
(* app.Build makes of that.  An absent field is the zero value of its Go   *)
(* type.  Hosts and addresses are kinds: "v4" and "v6" are literals,       *)
(* "name" is looked up.                                                    *)
(***************************************************************************)
EXTENDS Integers, Sequences

Algorithms   == {"", "rr", "swrr", "weighted"}
HardCap      == 8388608    \* protocol.MaxPayloadHardCap
DefaultCap   == 1048576
DefaultChunk == 65536
DefaultIdle  == 60000
MaxPort      == 65535

Upstream == [id : STRING, host : {"", "v4", "v6", "name"}, port : Int, weight : Int]
Route    == [id : Nat, algorithm : STRING, upstreams : Seq(STRING)]
File     == [version : Int, reactors : Int,
             ip : {"", "v4", "any", "bad"}, port : Int, backlog : Int,
             bind : {"", "loopback", "remote", "bad"},
             chunk : Int, high : Int, low : Int, maxPayload : Nat,
             idle : Int, interval : Int, timeout : Int,
             fail : Int, pass : Int,
             upstreams : Seq(Upstream), routes : Seq(Route)]

Positive(x, default) == IF x <= 0 THEN default ELSE x
NonZero(x, default)  == IF x = 0 THEN default ELSE x
Given(s, default)    == IF s = "" THEN default ELSE s

Weighted(u) == [u EXCEPT !.weight = Positive(u.weight, 1)]

ApplyDefaults(f) ==
    LET chunk == Positive(f.chunk, DefaultChunk) IN
    [version |-> NonZero(f.version, 1), reactors |-> Positive(f.reactors, 1),
     ip |-> Given(f.ip, "any"), port |-> NonZero(f.port, 9000),
     backlog |-> Positive(f.backlog, 1024), bind |-> Given(f.bind, "loopback"),
     chunk |-> chunk, high |-> Positive(f.high, (chunk * 3) \div 4),
     low |-> Positive(f.low, chunk \div 4),
     maxPayload |-> NonZero(f.maxPayload, DefaultCap),
     idle |-> Positive(f.idle, DefaultIdle), interval |-> Positive(f.interval, 2000),
     timeout |-> Positive(f.timeout, 800),
     fail |-> Positive(f.fail, 3), pass |-> Positive(f.pass, 2),
     upstreams |-> [i \in DOMAIN f.upstreams |-> Weighted(f.upstreams[i])],
     routes |-> f.routes]

Ids(s)    == {s[i].id : i \in DOMAIN s}
Unique(s) == \A i, j \in DOMAIN s : s[i].id = s[j].id => i = j
Port(p)   == p \in 1 .. MaxPort

\* defect: two upstreams or routes may have one id
ValidateWithDuplicates(f) ==
    /\ f.version = 1 /\ f.reactors \in 1 .. 64 /\ Port(f.port)
    /\ f.maxPayload \in 1 .. HardCap
    /\ f.low > 0 /\ f.high > f.low
    /\ f.upstreams # <<>>
    /\ \A i \in DOMAIN f.upstreams :
           LET u == f.upstreams[i] IN u.id # "" /\ u.host # "" /\ Port(u.port)
    /\ f.routes # <<>>
    /\ \A i \in DOMAIN f.routes :
           LET r == f.routes[i] IN
           /\ r.id # 0 /\ r.upstreams # <<>> /\ r.algorithm \in Algorithms
           /\ \A k \in DOMAIN r.upstreams : r.upstreams[k] \in Ids(f.upstreams)
    /\ f.bind # "bad"

Validate(f) ==
    /\ f.version = 1 /\ f.reactors \in 1 .. 64 /\ Port(f.port)
    /\ f.maxPayload \in 1 .. HardCap
    /\ f.low > 0 /\ f.high > f.low
    /\ f.upstreams # <<>> /\ Unique(f.upstreams)
    /\ \A i \in DOMAIN f.upstreams :
           LET u == f.upstreams[i] IN u.id # "" /\ u.host # "" /\ Port(u.port)
    /\ f.routes # <<>> /\ Unique(f.routes)
    /\ \A i \in DOMAIN f.routes :
           LET r == f.routes[i] IN
           /\ r.id # 0 /\ r.upstreams # <<>> /\ r.algorithm \in Algorithms
           /\ \A k \in DOMAIN r.upstreams : r.upstreams[k] \in Ids(f.upstreams)
    /\ f.bind # "bad"

(* A Go map filled from a list, by id: a later entry replaces an earlier   *)
(* one.  Registry.byID, Build's byID and Table.byID are filled so.  Get    *)
(* and Lookup return nil, here 0, for an id that is not a key.             *)
Last(s, id) == CHOOSE i \in DOMAIN s :
    s[i].id = id /\ \A j \in DOMAIN s : s[j].id = id => j <= i
Get(s, id)  == IF id \in Ids(s) THEN Last(s, id) ELSE 0
Members(f, r) == [k \in DOMAIN r.upstreams |-> Get(f.upstreams, r.upstreams[k])]

----------------------------------------------------------------------------
(* What the other components take for granted of a loaded file: the maps   *)
(* lose no endpoint and no route, no route is empty or has a nil member,   *)
(* weights and thresholds are positive, the water marks are apart, and the *)
(* tickers have a period.                                                  *)
Usable(f) ==
    /\ f.reactors \in 1 .. 64 /\ f.backlog > 0
    /\ 0 < f.low /\ f.low < f.high /\ f.maxPayload > 0
    /\ f.fail > 0 /\ f.pass > 0
    /\ f.interval > 0 /\ f.timeout > 0 /\ f.idle > 0
    /\ \A i \in DOMAIN f.upstreams :
           Get(f.upstreams, f.upstreams[i].id) = i /\ f.upstreams[i].weight > 0
    /\ \A i \in DOMAIN f.routes :
           LET r == f.routes[i] IN
           /\ Get(f.routes, r.id) = i /\ r.upstreams # <<>>
           /\ \A k \in DOMAIN r.upstreams : Members(f, r)[k] \in DOMAIN f.upstreams
=============================================================================
