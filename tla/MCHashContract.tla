--------------------------- MODULE MCHashContract ---------------------------
(* An instance of HashContract for TLC: one era is three mints, a retarget *)
(* comes every two, and the supply runs out with a partial reward.         *)
EXTENDS HashContract

CONSTANTS m1, m2

MCMiners == {m1, m2}
MCNonces == 0..2
MCDigest == [m \in MCMiners |-> [e \in 0..(MaxHeight \div EpochBlocks) |->
                [x \in MCNonces |-> IF m = m1 THEN x ELSE 4 * x + e]]]
=============================================================================
