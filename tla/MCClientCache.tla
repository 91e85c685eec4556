------------------------------ MODULE MCClientCache ------------------------------
(* Every query of the catalogue.                                           *)
EXTENDS ClientCache
MCFollowed == Views
=============================================================================
