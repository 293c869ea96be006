---------------------------- MODULE MCAuditLedger ----------------------------
(* The audit ledger on a small instance.                                    *)
EXTENDS AuditLedger

CONSTANTS w1, w2, w3, x, y
=============================================================================
