----------------------------- MODULE MCConverter -----------------------------
(* Two starts at once, a start and a stop, a log stream beside a start, and *)
(* two builds that race beside a status.                                    *)
EXTENDS Converter, TLC

CONSTANTS r1, r2, r3

MCReqs == {r1, r2, r3}

Three(a, b, c) == (r1 :> a) @@ (r2 :> b) @@ (r3 :> c)

MCAsks ==
    {Three("start", "start", "none"), Three("start", "stop", "none"),
     Three("start", "logs", "none"), Three("build", "build", "status")}
=============================================================================
