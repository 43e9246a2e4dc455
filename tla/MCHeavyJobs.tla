---------------------------- MODULE MCHeavyJobs ----------------------------
(* The instances of HeavyJobs that TLC checks. *)
EXTENDS HeavyJobs, TLC

CONSTANTS u1, u2, u3, o1, o2, o3, o4, o5

ThreeUsers == {u1, u2, u3}

\* Three operations of one user and one of another.
FourOps == {o1, o2, o3, o4}
FourUsers == o1 :> u1 @@ o2 :> u1 @@ o3 :> u1 @@ o4 :> u2
FourKinds == o1 :> "job" @@ o2 :> "digest" @@ o3 :> "route" @@ o4 :> "digest"

\* Two of two users, and one of a third.
FiveOps == {o1, o2, o3, o4, o5}
FiveUsers == o1 :> u1 @@ o2 :> u1 @@ o3 :> u2 @@ o4 :> u2 @@ o5 :> u3
FiveKinds ==
    o1 :> "job" @@ o2 :> "digest" @@ o3 :> "digest" @@ o4 :> "inline" @@ o5 :> "route"

AllFaults == FaultKinds
RowAndStart == {"row", "start"}
=============================================================================
