------------------------------- MODULE LedgerSums -------------------------------
(***************************************************************************)
(* The sums that the money repositories let the database make: of the      *)
(* signed amounts of a ledger (walletLedgerNet, codLedgerNet) or of the    *)
(* refunds of a charge (listRefundableCharges).  A row not there counts 0, *)
(* as COALESCE(SUM(..), 0) has it.                                         *)
(***************************************************************************)
EXTENDS Integers, FiniteSetsExt

\* The sum over the rows S of the amounts f.
Total(f, S) == MapThenSumSet(LAMBDA e : f[e], S)
================================================================================
