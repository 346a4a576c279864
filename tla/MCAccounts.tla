----------------------------- MODULE MCAccounts -----------------------------
(* Instances of Accounts for TLC.                                          *)
EXTENDS Accounts

CONSTANTS ann, Ann, odd, p1, p2, r2

(* Ann is ann in capitals; odd is an address the CHECK refuses.            *)
MCNormal == [e \in Emails |-> IF e = Ann THEN ann ELSE e]

Registers(e, p) ==
    [kind |-> "register", email |-> e, password |-> p, bearer |-> None]
Logs(e, p) == [kind |-> "login", email |-> e, password |-> p, bearer |-> None]
Asks(t) == [kind |-> "me", email |-> ann, password |-> p1, bearer |-> t]

(* With three requests one token can be put to use: that of r2.           *)
MCCalls ==
    {Registers(ann, p1), Registers(Ann, p2), Registers(odd, p1), Logs(Ann, p1),
     Asks(r2)}
=============================================================================
