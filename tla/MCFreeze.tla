------------------------------- MODULE MCFreeze -------------------------------
(***************************************************************************)
(* A small repository: the harness and one other group of sources, two of  *)
(* the header's lines.                                                     *)
(***************************************************************************)
EXTENDS Freeze

MCGroups == {"capability", "harness"}
MCFields == {"contract_digest", "contract_status"}
=============================================================================
