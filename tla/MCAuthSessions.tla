---------------------------- MODULE MCAuthSessions ----------------------------
(* Small instances of AuthSessions for TLC: three requests racing round the *)
(* ring with crashes, a removal against a new sign-in, and sessions that    *)
(* age or are suspended.                                                    *)
EXTENDS AuthSessions, TLC

CONSTANTS r1, r2, r3

RequestSymmetry == Permutations(Requests)

RacingRefreshes == [sessions |-> 4, kept |-> 3, requests |-> Requests,
                    kinds |-> {"refresh", "use"}, events |-> {"crash"}]
Removal(pair) == [sessions |-> 4, kept |-> 2, requests |-> pair,
                  kinds |-> {"refresh", "use", "logout"}, events |-> {"remove", "login"}]
Ageing(pair) == [sessions |-> 3, kept |-> 2, requests |-> pair,
                 kinds |-> {"refresh", "use", "logout"}, events |-> {"expire", "suspend"}]

\* Any two of the requests, so that the mixes keep the symmetry.
Pairs == {{r1, r2}, {r1, r3}, {r2, r3}}
AllMixes == {RacingRefreshes} \cup UNION {{Removal(p), Ageing(p)} : p \in Pairs}
=============================================================================
