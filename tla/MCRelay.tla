------------------------------ MODULE MCRelay ------------------------------
(***************************************************************************)
(* Bridge, Codec and PlaySpace in one run of TLC: a behaviour is one of    *)
(* one of them, and the others stay as they began.  Codec and PlaySpace    *)
(* have only properties of safety: TLC checks those on every step, fair or *)
(* not.                                                                    *)
(***************************************************************************)
EXTENDS MCBridge, Codec, PlaySpace

VARIABLE part

RelayInit == /\ part \in {"bridge", "codec", "space"}
             /\ Init /\ CodecInit /\ PlayInit

RelayNext ==
    \/ part = "bridge" /\ Next /\ UNCHANGED <<part, codecVars, playVars>>
    \/ part = "codec" /\ CodecNext /\ UNCHANGED <<part, vars, playVars>>
    \/ part = "space" /\ PlayNext /\ UNCHANGED <<part, vars, codecVars>>

RelaySpec ==
    RelayInit /\ [][RelayNext]_<<part, vars, codecVars, playVars>> /\ Fairness

MCInts    == {-128, -1, 127}
MCFloats  == {<<0>>, <<200>>}
MCDoubles == {<<7, 130>>}
MCTexts   == {<< >>, <<8, 255>>}
MCStandings == {[translation |-> <<1, 2, -3>>, yaw |-> k] : k \in {1, 2}}
MCPoints    == {<<0, 0, 0>>, <<2, 1, 5>>}

=============================================================================
