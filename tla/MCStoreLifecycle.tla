-------------------------- MODULE MCStoreLifecycle --------------------------
(* Model values for checking StoreLifecycle with TLC.                      *)
EXTENDS StoreLifecycle

CONSTANTS c1, c2, c3

MCCallers == {c1, c2, c3}

=============================================================================
