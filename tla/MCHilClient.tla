---- MODULE MCHilClient ----
EXTENDS HilClient
====
