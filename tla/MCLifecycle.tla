---------------------------- MODULE MCLifecycle ----------------------------
(* Files for TLC: a small good one, and every file that differs from it in *)
(* at most two fields, each absent, too small, good or too large.          *)
EXTENDS Lifecycle

Up(id, host, port, weight) == [id |-> id, host |-> host, port |-> port, weight |-> weight]
To(id, algorithm, ups) == [id |-> id, algorithm |-> algorithm, upstreams |-> ups]

Good == [version |-> 1, reactors |-> 2, ip |-> "v4", port |-> 9000, backlog |-> 8,
         bind |-> "loopback", chunk |-> 4096, high |-> 64, low |-> 8, maxPayload |-> 100,
         idle |-> 5, interval |-> 5, timeout |-> 5, fail |-> 3, pass |-> 2,
         upstreams |-> <<Up("a", "v4", 1, 1), Up("b", "name", 2, 0)>>,
         routes |-> <<To(1, "rr", <<"a", "b">>)>>]

Values ==
    [version |-> {0, 2}, reactors |-> {-1, 0, 3, 65}, ip |-> {"", "bad"},
     port |-> {-1, 0, 65536}, backlog |-> {0}, bind |-> {"", "remote", "bad"},
     chunk |-> {0, 1, 6}, high |-> {0, 8, 9}, low |-> {0, 64},
     maxPayload |-> {0, HardCap, HardCap + 1},
     idle |-> {-1, 0}, interval |-> {0}, timeout |-> {0}, fail |-> {-1, 0}, pass |-> {0},
     upstreams |-> {<<>>, <<Up("a", "v6", 1, 1)>>, <<Up("a", "v4", 0, 1)>>,
                    <<Up("a", "v4", 1, 1), Up("a", "v4", 2, 1)>>,
                    <<Up("a", "", 1, 1)>>, <<Up("", "v4", 1, 1)>>},
     routes |-> {<<>>, <<To(0, "rr", <<"a">>)>>, <<To(1, "rr", <<>>)>>,
                 <<To(1, "rr", <<"c">>)>>, <<To(1, "x", <<"a">>)>>,
                 <<To(1, "swrr", <<"a", "a">>), To(2, "", <<"a">>)>>,
                 <<To(1, "weighted", <<"a">>), To(1, "rr", <<"a">>)>>}]

Changed(fs) ==
    UNION {{[f EXCEPT ![k] = v] : v \in Values[k]} : f \in fs, k \in DOMAIN Values}

OneOff == {Good} \cup Changed({Good})
TwoOff == OneOff \cup Changed(OneOff)
============================================================================
