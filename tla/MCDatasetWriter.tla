---------------------------- MODULE MCDatasetWriter ----------------------------
(* DatasetWriter on small instances.                                         *)
EXTENDS DatasetWriter
================================================================================
