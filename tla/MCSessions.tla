----------------------------- MODULE MCSessions -----------------------------
(***************************************************************************)
(* Two clients, two sessions, a TTL of two sweep intervals; two ingest     *)
(* requests in all, by one client or by both, and any number of reads.     *)
(***************************************************************************)
EXTENDS SessionStore
=============================================================================
