------------------------- MODULE MCAuthoritySession -------------------------
(* Instance of AuthoritySession for TLC: one authority, and enough faults  *)
(* to lose the link before, during and after a reconnection.               *)
EXTENDS AuthoritySession
=============================================================================
