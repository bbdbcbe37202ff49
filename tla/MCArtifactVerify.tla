-------------------------- MODULE MCArtifactVerify --------------------------
(* Three compositions, two of which share a name; tables of two entries.   *)
EXTENDS ArtifactVerify, TLC

CONSTANTS mk, nk, stale, t1, t2, t3, h1, h2

MCNameOf == (t1 :> mk) @@ (t2 :> mk) @@ (t3 :> nk)
MCHashOf == (t1 :> h1) @@ (t2 :> h2) @@ (t3 :> h2)

MCDeployments == UNION {[1..k -> {t1, t2, t3}] : k \in 0..2} \cup {<<t1, t2, t1>>}

(* The stale key is of no deployed trainable, so its manifest does not     *)
(* matter; nor does what a sidecar that is not read would record.          *)
Rows == {r \in [name : {mk, nk, stale}, acked : BOOLEAN,
                sidecar : {"absent", "malformed", "read"},
                hash : {h1, h2, NoHash}, pipeline : BOOLEAN] :
             /\ r.name = stale => r.sidecar = "absent" /\ ~r.acked
             /\ r.sidecar # "read" => r.hash = NoHash /\ ~r.pipeline}

MCTables == {<<>>} \cup {<<r>> : r \in Rows}
            \cup {<<p[1], p[2]>> : p \in {q \in Rows \X Rows : q[1].name # q[2].name}}
=============================================================================
