--------------------------- MODULE MCJwksProvider ---------------------------
EXTENDS JwksProvider

CONSTANTS v1, v2

MCVersions == {v1, v2}
=============================================================================
