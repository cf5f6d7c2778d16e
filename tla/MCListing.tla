----------------------------- MODULE MCListing ------------------------------
(* An instance of Listing for TLC. *)
EXTENDS Listing

MCDomain == {"a.example", "b.example"}
=============================================================================
