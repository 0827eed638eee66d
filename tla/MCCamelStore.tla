---- MODULE MCCamelStore ----
EXTENDS CamelStore
====
