--------------------------- MODULE MC_TierTriage ----------------------------
(***************************************************************************)
(* Values for the constants of TierTriage: sweeps whose gates are named    *)
(* after verdicts and labels, or quote the marker.                         *)
(***************************************************************************)
EXTENDS TierTriage, TLC

Gate(name, description, verdict, reason) ==
    [name |-> name, description |-> description, verdict |-> verdict, reason |-> reason]

(* The harness counts gates, or far more of them than two digits hold.     *)
Counts(t, p, f, w) ==
    ("Total tests" :> t) @@ ("Passed" :> p) @@ ("Failed" :> f) @@ ("Warnings" :> w)

Sweep(gates, passed, counts) == [gates |-> gates, passed |-> passed, counts |-> counts]

TheWords ==
    {"FAIL", "WARN", "CM-REAL-WARN", "CM-A", "(real warning reason)", "(root cause)",
     "Passed", "Failed", "7", Marker}

TheSweeps ==
    {Sweep(<<Gate("FAIL", <<"WARN">>, "PASS", NoReason),
             Gate("CM-REAL-WARN", <<>>, "WARN", "(real warning reason)")>>,
           TRUE, Counts(<<"2">>, <<"2">>, <<"0">>, <<"1">>)),
     Sweep(<<Gate("WARN", <<>>, "FAIL", "(root cause)"),
             Gate("CM-A", <<"FAIL">>, "FAIL", NoReason)>>,
           FALSE, Counts(<<"1", "2">>, <<"1", "0">>, <<"2">>, <<"0">>)),
     Sweep(<<Gate("Failed", <<"FAIL">>, "WARN", NoReason)>>,
           TRUE, Counts(<<"9", "9", "9">>, <<"9", "9", "9">>, <<"0">>, <<"1">>)),
     Sweep(<<Gate("Passed", <<"7">>, "PASS", NoReason),
             Gate("CM-A", <<Marker>>, "FAIL", NoReason)>>,
           FALSE, Counts(<<"2">>, <<"1">>, <<"1">>, <<"0">>))}

=============================================================================
