---------------------------- MODULE MCOtaDevice -----------------------------
(* Small instances of OtaDevice for TLC.                                   *)
EXTENDS OtaDevice

CONSTANTS old, new, alien

MCImages    == {old, new, alien}
MCSizeOf    == [i \in MCImages |-> 2]
MCVersionOf == [i \in MCImages |-> IF i = old THEN 1 ELSE 2]
MCSources   == {new, alien}
MCOurImages == {old, new}
MCSilentImages == {new}

Manifest(id, six, sha, version, len, well) ==
    [identity |-> id, sixFields |-> six, sha |-> sha, version |-> version,
     size |-> len, wellFormed |-> well]

\* The honest manifest of the new image, and one that offers an image of
\* another project under our name.
MCOffers ==
    {Manifest("ours", TRUE, new, 2, 2, TRUE),
     Manifest("ours", TRUE, alien, 2, 2, TRUE)}

\* And one for each way a manifest can be refused.
MCRefusals == MCOffers \cup
    {Manifest("ours", TRUE, new, 2, 3, TRUE),
     Manifest("ours", FALSE, new, 2, 2, TRUE),
     Manifest("ours", TRUE, new, 2, 2, FALSE),
     Manifest("project", TRUE, alien, 2, 2, TRUE),
     Manifest("target", TRUE, new, 2, 2, TRUE)}

\* For liveness: one image to install, which never brings BLE up, sent by an
\* honest sender.
MCTwoImages     == {old, new}
MCTwoSizes      == [i \in MCTwoImages |-> 2]
MCTwoVersions   == [i \in MCTwoImages |-> IF i = old THEN 1 ELSE 2]
MCHonestSource  == {new}
MCHonest        == {Manifest("ours", TRUE, new, 2, 2, TRUE)}
=============================================================================
