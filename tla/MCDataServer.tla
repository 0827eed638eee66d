---- MODULE MCDataServer ----
EXTENDS DataServer
====
