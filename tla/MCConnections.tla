---- MODULE MCConnections ----
EXTENDS Connections
====
