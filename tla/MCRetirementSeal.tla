-------------------------- MODULE MCRetirementSeal --------------------------
(* One job, one preview and one owner without a trigger, which may lapse   *)
(* as a sandbox holder does or never lapse as the other kinds do; two      *)
(* sealers and one node control writer.                                    *)
EXTENDS RetirementSeal, TLC

CONSTANTS job, preview, holder, s1, s2, c1, none

OneJob == {job}
OnePreview == {preview}
NoExecutors == {}
OneHolder == {holder}
TwoSealers == {s1, s2}
OneController == {c1}
SealSymmetry == Permutations(TwoSealers)
=============================================================================
