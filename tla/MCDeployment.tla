---------------------------- MODULE MCDeployment ----------------------------
(* TLC instances of Deployment.  The entries are those of the code          *)
(* (CacheEntry); each .cfg picks the operations and failures (May) that one *)
(* question is about, since all of them together, with two namespaces, are  *)
(* out of reach.                                                            *)
EXTENDS Deployment
=============================================================================
