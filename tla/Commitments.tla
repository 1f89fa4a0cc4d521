---------------------------- MODULE Commitments ----------------------------
(***************************************************************************)
(* What a buffer fabric promises, without saying how: claims on accounts.  *)
(* A claim is issued once, for units of one account, some of them possibly *)
(* on loan from a second account.  Issuing one never draws an account past *)
(* its limit, nor a lender past its room.  After that a claim can only     *)
(* shrink and end.  Limits may move at any time, even below what is used,  *)
(* but an account is not closed while a claim draws on it.                 *)
(***************************************************************************)
EXTENDS Integers, FiniteSets, Units

CONSTANTS Accounts, ClaimIds

VARIABLES
    claims,   \* for each id [status, account, lender, units, loan]
    limits    \* for each account [open, room, limit]

vars == <<claims, limits>>

Closed == [open |-> FALSE, room |-> 0, limit |-> 0]

Terms == [open : BOOLEAN, room : Nat, limit : Nat]

ClaimedUnits == [c \in ClaimIds |-> claims[c].units]
LoanedUnits == [c \in ClaimIds |-> claims[c].loan]

ClaimsOn(p) == {c \in ClaimIds : claims[c].status = "Held" /\ claims[c].account = p}
LoansFrom(p) == {c \in ClaimIds : claims[c].status = "Held" /\ claims[c].lender = p}

\* Units of p in use: what its claims hold but did not borrow, and what p lends.
Used(p) ==
    Total(ClaimsOn(p), ClaimedUnits) - Total(ClaimsOn(p), LoanedUnits)
        + Total(LoansFrom(p), LoanedUnits)

\* A claim draws on open accounts only.
DrawsOnOpen(c) ==
    claims[c].status = "Held" =>
        /\ claims[c].units # 0 => limits[claims[c].account].open
        /\ claims[c].loan # 0 => limits[claims[c].lender].open

Init ==
    /\ \A c \in ClaimIds : claims[c].status = "Free"
    /\ limits = [p \in Accounts |-> Closed]

\* A claim is issued under an id never used before, within the limits.
Issue(c) ==
    LET new == claims'[c] IN
    /\ claims[c].status = "Free"
    /\ new.status = "Held"
    /\ new.units \in Nat \ {0}
    /\ new.loan \in 0..new.units
    /\ \A d \in ClaimIds \ {c} : claims'[d] = claims[d]
    /\ limits' = limits
    /\ \E p \in Accounts :
          /\ new.account = p
          /\ Used(p)' <= limits[p].limit
    /\ new.loan # 0 =>
          \E l \in Accounts :
             /\ new.lender = l
             /\ l # new.account
             /\ Used(l)' <= limits[l].room
    /\ DrawsOnOpen(c)'

\* c keeps its parties, holds no more than before, and never comes back.
OnlyShrinks(c) ==
    /\ claims'[c].status \in
          CASE claims[c].status = "Held" -> {"Held", "Ended"}
            [] OTHER -> {claims[c].status}
    /\ claims'[c].status = "Held" =>
          /\ claims'[c].account = claims[c].account
          /\ claims'[c].lender = claims[c].lender
          /\ claims'[c].units <= claims[c].units
          /\ claims'[c].loan <= claims[c].loan

\* Claims shrink or end, any number at once, and limits are set anew.
Adjust ==
    /\ \A c \in ClaimIds : OnlyShrinks(c)
    /\ limits' \in [Accounts -> Terms]
    /\ \A c \in ClaimIds : DrawsOnOpen(c)'

Next ==
    \/ \E c \in ClaimIds : Issue(c)
    \/ Adjust

Spec == Init /\ [][Next]_vars
=============================================================================
