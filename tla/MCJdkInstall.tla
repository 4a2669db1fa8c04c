---------------------------- MODULE MCJdkInstall ----------------------------
EXTENDS JdkInstall

\* The second release has the length of the first, the third is longer.
MCSize == [r \in 1 .. MaxRelease |-> IF r = 3 THEN 3 ELSE 2]
=============================================================================
