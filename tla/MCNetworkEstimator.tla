------------------------- MODULE MCNetworkEstimator -------------------------
(***************************************************************************)
(* NetworkEstimator for TLC: two stations that observe one satellite.  The *)
(* states are the ambiguities of the two, the clock of the satellite and   *)
(* its rate, and the clock of the second station.                          *)
(***************************************************************************)
EXTENDS NetworkEstimator, TLC

MCSignals == {"a", "b"}
MCStationOf == [s \in MCSignals |-> s]
MCSatelliteOf == [s \in MCSignals |-> "sat"]
MCAmbiguityOf == "a" :> 1 @@ "b" :> 2
MCCodeKeys == "a" :> {3} @@ "b" :> {3, 5}
MCRateOf == 3 :> 4
MCLags == {-1, 0, 2}
=============================================================================
