------------------------------- MODULE MCUpload -------------------------------
(***************************************************************************)
(* One version with three files.  u1 and u3 upload artifact a1 with its    *)
(* POM, as a release and its second try do; u2 uploads another classifier  *)
(* a2 and the same POM.  The registry refuses to replace any of them.      *)
(***************************************************************************)
EXTENDS Upload

CONSTANTS u1, u2, u3, a1, a2

MCArtifactOf == [u \in Uploads |-> IF u = u2 THEN a2 ELSE a1]
=============================================================================
