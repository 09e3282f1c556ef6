------------------------------ MODULE LocalRun ------------------------------
(***************************************************************************)
(* run_from_local of harness/divergence.py: the Run of one implementation, *)
(* built from what its canonicalizer did with the artifact, the receipt it *)
(* got (or none) and the consequence it observed.                          *)
(*                                                                         *)
(* A receipt is a function from the fields it carries to their values, so  *)
(* that a field a receipt lacks is not the same as a field holding None.   *)
(***************************************************************************)
CONSTANTS Absent,  \* the mark of a stage that is no key of Run.values
          Nil      \* Python's None

\* dict.get
Get(receipt, field) ==
  IF field \in DOMAIN receipt THEN receipt[field] ELSE Nil

\* Mutant: a refusal leaves the first two stages out.
RefusalAbsent(canon) ==
  IF canon.refused THEN <<Absent, Absent>> ELSE <<canon.bytes, canon.digest>>

\* A refusal is a state: its message stands for the bytes and for the digest.
CanonicalValues(canon) ==
  IF canon.refused
  THEN <<canon.message, canon.message>>
  ELSE <<canon.bytes, canon.digest>>

ReceiptValues(receipt, consequence) ==
  IF receipt = Nil
  THEN <<Absent, Absent, Absent, Absent>>
  ELSE << Get(receipt, "predicates"),
          Get(receipt, "decision"),
          IF consequence # Nil
            THEN consequence
            ELSE Get(receipt, "output_digest"),
          Get(receipt, "proof_digest") >>

Local(caseId, canon, receipt, consequence) ==
  LET early == CanonicalValues(canon)
      late  == ReceiptValues(receipt, consequence)
  IN  [ caseId   |-> caseId,
        values   |-> << early[1], early[2], late[1], late[2], late[3], late[4] >> ]
=============================================================================
